---------------------------- MODULE Spec2Model ----------------------------
(***************************************************************************)
(* A model of the MFA audit core of monitoring-worker:                     *)
(*   - RiskEngine             (src/src/scoring/risk_engine.py)             *)
(*   - NetworkInterceptor     (src/src/crawlers/network_interceptor.py)    *)
(*   - AdAnalyzer             (src/src/analyzers/ad_analyzer.py)           *)
(*   - AdHeatmapGenerator     (src/src/analyzers/ad_heatmap.py)            *)
(*   - ViewabilityChecker     (src/src/analyzers/viewability.py)           *)
(*   - the stacking scan      (src/src/crawlers/audit_crawler.py)          *)
(*   - the audit flow and the job queue polling (src/src/queue/tasks.py,   *)
(*     src/src/database/client.py)                                         *)
(*                                                                         *)
(* Numbers.  Python floats are modelled by exact rationals.  A rational is *)
(* a pair <<n, d>> with d > 0.  Scores that the code keeps with two        *)
(* decimals are carried in hundredths, weights in hundredths, confidences  *)
(* in five-hundredths (word_count / 500 is then the integer word_count).   *)
(* A Python dict entry that may be missing is an option: <<>> when the key *)
(* is absent, <<v>> when it is present with value v.                       *)
(***************************************************************************)
EXTENDS Integers, Sequences, FiniteSets, TLC

VARIABLES
    re_call,      \* the last RiskEngine.calculate_score call: its arguments and result
    ni,           \* the fields of one NetworkInterceptor instance
    ni_call,      \* the last sequential analyze_requests call on ni: argument, result
    th,           \* the two threads that share ni: program counter, loop index, result
    ad_call,      \* the last AdAnalyzer.analyze call: its arguments and result
    hm_call,      \* the last AdHeatmapGenerator.analyze call: its arguments and result
    vc_call,      \* the last ViewabilityChecker.analyze call: its arguments and result
    rl_call,      \* a score and the risk level each component's _get_risk_level gives it
    st_call,      \* the ad list of a page and the result of the crawler's stacking scan
    audit,        \* one run of _run_audit_async: position, page, results, its record
    jq            \* audit_job_queue with the poll_queue and recover_stuck_jobs runs

vars == <<re_call, ni, ni_call, th, ad_call, hm_call, vc_call, rl_call, st_call,
          audit, jq>>

-----------------------------------------------------------------------------
(* Options (dict.get) and rationals (float arithmetic)                     *)

\* dict.get(key, default) on an option
Get(opt, default) == IF opt = <<>> THEN default ELSE opt[1]

Min(a, b) == IF a <= b THEN a ELSE b
Max(a, b) == IF a >= b THEN a ELSE b

RECURSIVE SumSeq(_)
SumSeq(s) == IF s = <<>> THEN 0 ELSE Head(s) + SumSeq(Tail(s))

Abs(a) == IF a < 0 THEN 0 - a ELSE a

RECURSIVE GCD(_, _)
GCD(a, b) == IF b = 0 THEN a ELSE GCD(b, a % b)

\* the rational n / d in lowest terms (d > 0); floats have no such step, it only
\* keeps the integers of the model small
Norm(r) ==
    LET g == GCD(Abs(r[1]), r[2])
    IN  IF g = 0 THEN r ELSE <<r[1] \div g, r[2] \div g>>

\* comparisons of rationals <<n, d>>, d > 0
RLt(a, b) == Norm(a)[1] * Norm(b)[2] < Norm(b)[1] * Norm(a)[2]
RLe(a, b) == Norm(a)[1] * Norm(b)[2] <= Norm(b)[1] * Norm(a)[2]
REq(a, b) == Norm(a) = Norm(b)

\* the quotient n / d carried to k decimal digits: <<floor(n / d * 10^k), remainder>>
RECURSIVE DivDigits(_, _, _)
DivDigits(n, d, k) ==
    IF k = 0 THEN <<n \div d, n % d>>
    ELSE LET p == DivDigits(n, d, k - 1)
         IN  <<p[1] * 10 + ((p[2] * 10) \div d), (p[2] * 10) % d>>

\* Python's round(n / d, k), in units of 10^-k (ties go to the even digit)
Round(n, d, k) ==
    LET p == DivDigits(n, d, k)
    IN  IF 2 * p[2] > d \/ (2 * p[2] = d /\ p[1] % 2 = 1) THEN p[1] + 1 ELSE p[1]

-----------------------------------------------------------------------------
(* RiskEngine                                                              *)

\* _calculate_gam_risk's totals: sums over the rows of the GAM data
RECURSIVE SumField(_, _)
SumField(rows, f) == IF rows = <<>> THEN 0 ELSE Head(rows)[f] + SumField(Tail(rows), f)

\* RiskEngine._calculate_gam_risk, in hundredths.  `gam` is [none, rows]; a row is
\* [impressions, clicks, revenue] with revenue in thousandths of a currency unit,
\* so that avg_ecpm = revenue / impressions * 1000 is revenue_m / impressions.
calculate_gam_risk(gam) ==
    IF gam.none \/ gam.rows = <<>> THEN 50
    ELSE LET total_impressions == SumField(gam.rows, "impressions")
             total_clicks      == SumField(gam.rows, "clicks")
             total_revenue     == SumField(gam.rows, "revenue")
             \* avg_ctr = clicks / impressions * 100, avg_ecpm = revenue_m / impressions
             ctr_gt(x)   == total_clicks * 100 > x * total_impressions
             ecpm_lt(n, d) == total_revenue * d < n * total_impressions
             classic  == IF ctr_gt(2) /\ ecpm_lt(1, 2) THEN 40
                         ELSE IF ctr_gt(1) /\ ecpm_lt(1, 1) THEN 25 ELSE 0
             click    == IF ctr_gt(5) THEN 30 ELSE IF ctr_gt(3) THEN 15 ELSE 0
             lowq     == IF ecpm_lt(1, 10) THEN 20 ELSE IF ecpm_lt(1, 4) THEN 10 ELSE 0
         IN  IF total_impressions = 0 THEN 50
             ELSE Min(classic + click + lowq, 100)

\* RiskEngine._get_risk_level on a rational score
get_risk_level(score) ==
    IF RLe(score, <<3, 10>>) THEN "low"
    ELSE IF RLe(score, <<6, 10>>) THEN "medium"
    ELSE "high"

\* RiskEngine._inconclusive_result
inconclusive_result(crawl_status) ==
    [ risk_score      |-> 0,
      mfa_probability |-> 0,
      confidence      |-> 0,
      risk_level      |-> "inconclusive",
      components      |-> <<>>,
      scoring_mode    |-> "none",
      crawl_status    |-> crawl_status,
      prob            |-> <<0, 1>>,
      conf            |-> <<0, 1>> ]

\* RiskEngine._calculate_gam_only_score: one component, fixed confidence 0.6
calculate_gam_only_score(gam, crawl_status) ==
    LET gam_score == calculate_gam_risk(gam)
    IN  [ risk_score      |-> Round(gam_score * 100, 100, 2),
          mfa_probability |-> Round(gam_score, 100, 4),
          confidence      |-> 6000,
          risk_level      |-> get_risk_level(<<gam_score, 100>>),
          components      |-> [c \in {"gam"} |->
                                 [score |-> gam_score, weight |-> 100, confidence |-> 300]],
          scoring_mode    |-> "gam_only",
          crawl_status    |-> crawl_status,
          prob            |-> Norm(<<gam_score, 100>>),
          conf            |-> <<3, 5>> ]

\* has_gam_data as `gam_data is not None`: an empty list counts as data
has_gam_data_mut(gam) == ~gam.none

\* has_gam_data of calculate_score, and the truth value of `gam_data` in
\* _calculate_full_score: None and the empty list are both false
has_gam_data(gam) == ~gam.none /\ Len(gam.rows) > 0

\* the four components of _calculate_full_score (lines 69-87)
full_components(content, ad, technical, gam) ==
    [c \in {"content", "ad", "traffic", "technical"} |->
       CASE c = "content" ->
              [ score      |-> Get(content.risk_score, 50),
                weight     |-> 25,
                confidence |-> IF content.error THEN 100
                               ELSE Min(Get(content.word_count, 0), 500) ]
         [] c = "ad" ->
              [ score      |-> Get(ad.risk_score, 50),
                weight     |-> 35,
                confidence |-> IF Get(ad.ad_count, 0) > 0 THEN 500 ELSE 350 ]
         [] c = "traffic" ->
              [ score      |-> IF has_gam_data(gam) THEN calculate_gam_risk(gam) ELSE 50,
                weight     |-> 25,
                confidence |-> IF has_gam_data(gam) THEN 500 ELSE 150 ]
         [] c = "technical" ->
              [ score      |-> 100 - Get(technical.health_score, 50),
                weight     |-> 15,
                confidence |-> 400 ] ]

\* the denominator's term as the weight alone, the confidence forgotten
weight_term_mut(c) == c.weight

\* one component's term of total_weight (line 90)
weight_term(c) == c.weight * c.confidence

\* the numerator's term without the confidence
weighted_term_mut(c) == c.score * c.weight

\* one component's term of weighted_score (line 91)
weighted_term(c) == c.score * c.weight * c.confidence

\* sum(c["weight"] * c["confidence"] for c in components.values())
RECURSIVE SumWeight(_, _)
SumWeight(comps, names) ==
    IF names = {} THEN 0
    ELSE LET n == CHOOSE x \in names : TRUE
         IN  weight_term(comps[n]) + SumWeight(comps, names \ {n})

\* sum(c["score"] * c["weight"] * c["confidence"] for c in components.values())
RECURSIVE SumWeighted(_, _)
SumWeighted(comps, names) ==
    IF names = {} THEN 0
    ELSE LET n == CHOOSE x \in names : TRUE
         IN  weighted_term(comps[n]) + SumWeighted(comps, names \ {n})

\* RiskEngine._calculate_full_score
calculate_full_score(content, ad, technical, policy, gam, crawl_status) ==
    LET components == full_components(content, ad, technical, gam)
        total_weight   == SumWeight(components, DOMAIN components)
        weighted_score == SumWeighted(components, DOMAIN components)
        \* weighted_score / total_weight, the scores being in hundredths
        mfa_probability == IF total_weight > 0 THEN <<weighted_score, 100 * total_weight>>
                           ELSE <<1, 2>>
        \* sum(confidence * weight), in 1/50000; times 0.8 when FALLBACK
        overall_confidence == IF crawl_status = "FALLBACK"
                              THEN <<4 * total_weight, 250000>>
                              ELSE <<total_weight, 50000>>
    IN  [ risk_score      |-> Round(100 * mfa_probability[1], mfa_probability[2], 2),
          mfa_probability |-> Round(mfa_probability[1], mfa_probability[2], 4),
          confidence      |-> Round(overall_confidence[1], overall_confidence[2], 4),
          risk_level      |-> get_risk_level(mfa_probability),
          components      |-> components,
          scoring_mode    |-> "full",
          crawl_status    |-> crawl_status,
          prob            |-> Norm(mfa_probability),
          conf            |-> Norm(overall_confidence) ]

\* RiskEngine.calculate_score
calculate_score(content, ad, technical, policy, gam, crawl_status) ==
    LET is_blocked == crawl_status = "BLOCKED"
    IN  IF is_blocked /\ has_gam_data(gam)
          THEN calculate_gam_only_score(gam, crawl_status)
        ELSE IF is_blocked /\ ~has_gam_data(gam)
          THEN inconclusive_result(crawl_status)
        ELSE calculate_full_score(content, ad, technical, policy, gam, crawl_status)

-----------------------------------------------------------------------------
(* The arguments of RiskEngine.calculate_score                             *)

\* longest GAM data list
MaxGamRows == 2

\* content_analysis: risk_score (hundredths), word_count, and whether the dict
\* has an "error" key (ContentAnalyzer._empty_result always has one)
ContentInputs ==
    [ risk_score : {<<>>, <<10>>, <<100>>},
      word_count : {<<>>, <<0>>, <<250>>, <<1000>>},
      error      : BOOLEAN ]

\* ad_analysis: risk_score (hundredths) and ad_count
AdInputs == [ risk_score : {<<>>, <<0>>, <<100>>}, ad_count : {<<>>, <<0>>, <<8>>} ]

\* technical_check: health_score (0-100)
TechnicalInputs == [ health_score : {<<>>, <<0>>, <<90>>} ]

\* policy_check: calculate_score takes it and never reads it
PolicyInputs == {"clean", "violations"}

\* GAM rows: no impressions; clean traffic; CTR 2.5% at eCPM 0.40;
\* CTR 6% at eCPM 0.05
GamRows ==
    { [impressions |-> 0,    clicks |-> 0,  revenue |-> 0],
      [impressions |-> 1000, clicks |-> 0,  revenue |-> 2000],
      [impressions |-> 1000, clicks |-> 25, revenue |-> 400],
      [impressions |-> 1000, clicks |-> 60, revenue |-> 50] }

SeqsUpTo(S, n) == UNION { [1..k -> S] : k \in 0..n }

\* gam_data: None, or a list of rows (possibly empty)
GamInputs ==
    { [none |-> TRUE, rows |-> <<>>] } \cup
    { [none |-> FALSE, rows |-> r] : r \in SeqsUpTo(GamRows, MaxGamRows) }

CrawlStatuses == {"SUCCESS", "FALLBACK", "BLOCKED", "FAILED"}

\* a variable of a component that the specification at hand does not exercise
Idle == [called |-> FALSE]

\* the calls of RiskEngine.calculate_score that are about to be made
RiskCalls ==
    [ called       : {FALSE},
      content      : ContentInputs,
      ad           : AdInputs,
      technical    : TechnicalInputs,
      policy       : PolicyInputs,
      gam          : GamInputs,
      crawl_status : CrawlStatuses,
      result       : {<<>>} ]

\* one call of RiskEngine.calculate_score (a RiskEngine has no fields)
CalculateScore ==
    /\ ~re_call.called
    /\ re_call' = [re_call EXCEPT
                     !.called = TRUE,
                     !.result = calculate_score(re_call.content, re_call.ad,
                                                re_call.technical, re_call.policy,
                                                re_call.gam, re_call.crawl_status)]
    /\ UNCHANGED <<ni, ni_call, th, ad_call, hm_call, vc_call, rl_call, st_call,
                   audit, jq>>

InitRisk ==
    /\ re_call \in RiskCalls
    /\ ni = Idle
    /\ ni_call = Idle
    /\ th = Idle
    /\ ad_call = Idle
    /\ hm_call = Idle
    /\ vc_call = Idle
    /\ rl_call = Idle
    /\ st_call = Idle
    /\ audit = Idle
    /\ jq = Idle

NextRisk == CalculateScore

\* RiskEngine.calculate_score applied to every argument tuple
SpecRisk == InitRisk /\ [][NextRisk]_vars

-----------------------------------------------------------------------------
(* NetworkInterceptor                                                      *)
(*                                                                         *)
(* A URL is carried as what the code reads from it: its netloc (urlparse), *)
(* whether it matches the ad-network, Prebid and VAST pattern lists, the   *)
(* network _identify_network names and the arbitrage source it matches.    *)
(* Netlocs and networks are numbered: 0 is the empty netloc.               *)
(* A request is [url, timing]: both are options, as the code reads them    *)
(* with req.get("url", "") and req.get("timing", {}).get("startTime", 0).  *)
(* The request "type" (by_type statistics) is left out.  Timestamps are    *)
(* whole milliseconds.                                                     *)

\* the URL "" that req.get("url", "") gives a request without a url
EmptyUrl ==
    [ domain |-> 0, ad |-> FALSE, prebid |-> FALSE, vast |-> FALSE,
      network |-> 0, arbitrage |-> <<>> ]

\* NetworkInterceptor.__init__
NewInterceptor ==
    [ requests         |-> <<>>,
      ad_requests      |-> <<>>,
      prebid_events    |-> <<>>,
      vast_calls       |-> <<>>,
      websockets       |-> <<>>,
      blocked_requests |-> <<>>,
      refresh_patterns |-> <<>> ]

\* the index of `domain` in the dict refresh_patterns (kept in insertion order
\* as a sequence of [domain, timings]), 0 when it is not a key
RECURSIVE KeyIndex(_, _, _)
KeyIndex(rp, domain, i) ==
    IF i > Len(rp) THEN 0
    ELSE IF rp[i].domain = domain THEN i
    ELSE KeyIndex(rp, domain, i + 1)

\* NetworkInterceptor._track_refresh_pattern
track_refresh_pattern(rp, url, timing) ==
    LET i == KeyIndex(rp, url.domain, 1)
    IN  IF i = 0 THEN Append(rp, [domain |-> url.domain, timings |-> <<timing>>])
        ELSE [rp EXCEPT ![i].timings = Append(@, timing)]

\* NetworkInterceptor._categorize_request
categorize_request(self, req) ==
    LET url    == Get(req.url, EmptyUrl)
        timing == Get(req.timing, 0)
        s1 == IF url.ad
              THEN [self EXCEPT
                      !.ad_requests = Append(@, [url |-> url, network |-> url.network,
                                                 timing |-> timing]),
                      !.refresh_patterns = track_refresh_pattern(@, url, timing)]
              ELSE self
        s2 == IF url.prebid
              THEN [s1 EXCEPT !.prebid_events = Append(@, [url |-> url, timestamp |-> timing])]
              ELSE s1
    IN  IF url.vast
        THEN [s2 EXCEPT !.vast_calls = Append(@, [url |-> url, timestamp |-> timing])]
        ELSE s2

\* list.sort() on a list of numbers: insertion into a sorted list, and the sort
RECURSIVE Insert(_, _)
Insert(x, s) ==
    IF s = <<>> THEN <<x>>
    ELSE IF x <= Head(s) THEN <<x>> \o s
    ELSE <<Head(s)>> \o Insert(x, Tail(s))

\* the timestamps left in the order of arrival
Sort_mut(s) == s

RECURSIVE Sort(_)
Sort(s) == IF s = <<>> THEN <<>> ELSE Insert(Head(s), Sort(Tail(s)))

\* intervals = [timings[i+1] - timings[i] for i in range(len(timings) - 1)]
Intervals(timings) == [i \in 1..(Len(timings) - 1) |-> timings[i + 1] - timings[i]]

RECURSIVE MinSeq(_)
MinSeq(s) == IF Len(s) = 1 THEN s[1] ELSE Min(Head(s), MinSeq(Tail(s)))

\* the severity a flagged domain gets (line 290) from its smallest interval
refresh_severity(min_interval) == IF min_interval < 15000 THEN "HIGH" ELSE "MEDIUM"

\* the body of the loop of _analyze_refresh_patterns for one domain: the entry it
\* appends to suspicious_refreshes, as a list of zero or one entry
refresh_entry(domain, timings) ==
    IF Len(timings) < 2 THEN <<>>
    ELSE LET sorted       == Sort(timings)
             intervals    == Intervals(sorted)
             total        == SumSeq(intervals)
             min_interval == MinSeq(intervals)
         IN  \* avg_interval < 60000 is sum(intervals) < 60000 * len(intervals)
             IF min_interval < 30000 \/ total < 60000 * Len(intervals)
             THEN << [ domain          |-> domain,
                       avg_interval_ms |-> Round(total, Len(intervals), 0),
                       min_interval_ms |-> min_interval,
                       request_count   |-> Len(timings),
                       severity        |-> refresh_severity(min_interval) ] >>
             ELSE <<>>

\* suspicious_refreshes of _analyze_refresh_patterns: every flagged domain, in the
\* order of the dict
RECURSIVE suspicious_refreshes(_)
suspicious_refreshes(rp) ==
    IF rp = <<>> THEN <<>>
    ELSE refresh_entry(Head(rp).domain, Head(rp).timings) \o suspicious_refreshes(Tail(rp))

\* the dict after _analyze_refresh_patterns: timings.sort() sorts in place the list
\* of every domain that has at least two timestamps
sorted_refresh_patterns(rp) ==
    [i \in 1..Len(rp) |->
       IF Len(rp[i].timings) < 2 THEN rp[i]
       ELSE [rp[i] EXCEPT !.timings = Sort(@)]]

\* the value NetworkInterceptor._analyze_refresh_patterns returns
analyze_refresh_patterns(rp) ==
    LET flagged == suspicious_refreshes(rp)
    IN  [ detected |-> Len(flagged) > 0,
          count    |-> Len(flagged),
          patterns |-> SubSeq(flagged, 1, Min(5, Len(flagged))) ]

\* NetworkInterceptor._detect_suspicious_patterns, from what it reads: the lengths
\* of ad_requests, prebid_events and vast_calls, the number of distinct networks
\* and the refresh analysis
detect_suspicious_patterns(n_ad, n_prebid, n_vast, n_networks, refresh) ==
    (IF n_ad > 100 THEN << [type |-> "EXCESSIVE_AD_CALLS", severity |-> "HIGH"] >>
     ELSE IF n_ad > 50 THEN << [type |-> "HIGH_AD_CALLS", severity |-> "MEDIUM"] >>
     ELSE <<>>)
    \o (IF n_prebid > 10
        THEN << [type |-> "MULTIPLE_PREBID_AUCTIONS", severity |-> "MEDIUM"] >> ELSE <<>>)
    \o (IF refresh.detected
        THEN << [ type     |-> "AUTO_REFRESH_ADS",
                  severity |-> IF \E i \in 1..Len(refresh.patterns) :
                                     refresh.patterns[i].severity = "HIGH"
                               THEN "HIGH" ELSE "MEDIUM" ] >>
        ELSE <<>>)
    \o (IF n_networks > 15
        THEN << [type |-> "FRAGMENTED_AD_STACK", severity |-> "MEDIUM"] >> ELSE <<>>)
    \o (IF n_vast > 5
        THEN << [type |-> "EXCESSIVE_VIDEO_ADS", severity |-> "MEDIUM"] >> ELSE <<>>)

\* the points one pattern adds in _calculate_network_risk_score (lines 440-453)
pattern_points(pattern) ==
    CASE pattern.type = "AUTO_REFRESH_ADS" -> IF pattern.severity = "HIGH" THEN 40 ELSE 25
      [] pattern.type = "EXCESSIVE_AD_CALLS" -> IF pattern.severity = "HIGH" THEN 30 ELSE 15
      [] pattern.type = "MULTIPLE_PREBID_AUCTIONS" -> 10
      [] pattern.type = "EXCESSIVE_VIDEO_ADS" -> 15
      [] pattern.type = "FRAGMENTED_AD_STACK" -> 5
      [] OTHER -> 0

RECURSIVE SumPoints(_)
SumPoints(patterns) ==
    IF patterns = <<>> THEN 0 ELSE pattern_points(Head(patterns)) + SumPoints(Tail(patterns))

\* NetworkInterceptor._calculate_network_risk_score
calculate_network_risk_score(n_ad, patterns) ==
    LET base == IF n_ad > 100 THEN 70 ELSE IF n_ad > 50 THEN 40
                ELSE IF n_ad > 25 THEN 15 ELSE 0
    IN  Min(100, base + SumPoints(patterns))

\* NetworkInterceptor._get_risk_level
network_get_risk_level(score) ==
    IF score >= 70 THEN "high" ELSE IF score >= 40 THEN "medium" ELSE "low"

\* unique_sources of _detect_arbitrage_signals: it reads self.requests
arbitrage_sources(requests) ==
    { Get(requests[i].url, EmptyUrl).arbitrage[1] :
        i \in { j \in 1..Len(requests) : Get(requests[j].url, EmptyUrl).arbitrage # <<>> } }

\* lines 131-175 of analyze_requests: the analyses and the returned dict, computed
\* from the argument `requests` and the instance fields as they stand
analysis_result(self, requests) ==
    LET refresh_analysis == analyze_refresh_patterns(self.refresh_patterns)
        networks == { self.ad_requests[i].network : i \in 1..Len(self.ad_requests) }
        suspicious_patterns ==
            detect_suspicious_patterns(Len(self.ad_requests), Len(self.prebid_events),
                                       Len(self.vast_calls), Cardinality(networks),
                                       analyze_refresh_patterns(
                                          sorted_refresh_patterns(self.refresh_patterns)))
        sources == arbitrage_sources(self.requests)
        risk_score == calculate_network_risk_score(Len(self.ad_requests),
                                                   suspicious_patterns)
    IN  [ total_requests          |-> Len(requests),
          ad_requests_count       |-> Len(self.ad_requests),
          ad_request_percentage   |-> Round(Len(self.ad_requests) * 100,
                                            Max(Len(requests), 1), 2),
          prebid_events_count     |-> Len(self.prebid_events),
          has_header_bidding      |-> Len(self.prebid_events) > 0,
          vast_calls_count        |-> Len(self.vast_calls),
          has_video_ads           |-> Len(self.vast_calls) > 0,
          ad_network_count        |-> Min(15, Cardinality(networks)),
          refresh_patterns        |-> refresh_analysis,
          has_auto_refresh        |-> refresh_analysis.detected,
          arbitrage_sources       |-> sources,
          has_arbitrage_traffic   |-> Cardinality(sources) >= 2,
          suspicious_patterns     |-> suspicious_patterns,
          has_suspicious_activity |-> Len(suspicious_patterns) > 0,
          network_risk_score      |-> risk_score,
          risk_level              |-> network_get_risk_level(risk_score) ]

\* lines 121-124 of analyze_requests: the fields it sets anew (refresh_patterns,
\* websockets and blocked_requests are not among them)
begin_analysis(self, requests) ==
    [self EXCEPT !.requests = requests, !.ad_requests = <<>>,
                 !.prebid_events = <<>>, !.vast_calls = <<>>]

\* lines 126-128: the loop over the requests
RECURSIVE categorize_all(_, _)
categorize_all(self, requests) ==
    IF requests = <<>> THEN self
    ELSE categorize_all(categorize_request(self, Head(requests)), Tail(requests))

\* the instance after lines 131-137: the refresh analysis has sorted the lists
end_analysis(self) ==
    [self EXCEPT !.refresh_patterns = sorted_refresh_patterns(@)]

\* NetworkInterceptor.analyze_requests run without interruption: the instance it
\* leaves and the dict it returns
analyze_requests(self, requests) ==
    LET s == categorize_all(begin_analysis(self, requests), requests)
    IN  [ self |-> end_analysis(s), result |-> analysis_result(s, requests) ]

-----------------------------------------------------------------------------
(* The arguments of NetworkInterceptor.analyze_requests, and its callers   *)

\* longest request list of a single call
MaxRequests == 3

\* a URL of ad network d, served from netloc d (d = 2 is also an arbitrage source)
AdUrl(d) ==
    [ domain |-> d, ad |-> TRUE, prebid |-> FALSE, vast |-> FALSE,
      network |-> d, arbitrage |-> IF d = 2 THEN <<d>> ELSE <<>> ]

\* a URL of the page's own netloc that matches the Prebid and the VAST patterns
\* and no ad network
BidderUrl ==
    [ domain |-> 9, ad |-> FALSE, prebid |-> TRUE, vast |-> TRUE,
      network |-> 0, arbitrage |-> <<>> ]

\* timing.startTime values (ms): their distances lie on both sides of, and on,
\* the 15 s, 30 s and 60 s thresholds
Timings == {0, 10000, 25000, 55000, 90000, 150000}

\* requests: ad requests to two netlocs with or without timing.startTime, a
\* bidder request, and a request without a url
Requests ==
    [ url    : {<<AdUrl(1)>>, <<AdUrl(2)>>},
      timing : {<<>>} \cup { <<t>> : t \in Timings } ]
    \cup { [url |-> <<BidderUrl>>, timing |-> <<0>>], [url |-> <<>>, timing |-> <<>>] }

\* most ad netlocs of one page load
MaxDomains == 6

\* what one netloc's ad requests can be on a page of many ad netlocs: none, two
\* 10 s apart, two 45 s apart
DomainProfiles == { <<>>, <<0, 10000>>, <<0, 45000>> }

DomainRequests(d, profile) ==
    [i \in 1..Len(profile) |-> [url |-> <<AdUrl(d)>>, timing |-> <<profile[i]>>]]

RECURSIVE ProfileList(_, _)
ProfileList(p, d) ==
    IF d > MaxDomains THEN <<>>
    ELSE DomainRequests(d, p[d]) \o ProfileList(p, d + 1)

Reverse(s) == [i \in 1..Len(s) |-> s[Len(s) + 1 - i]]

\* page loads with up to MaxDomains ad netlocs, in the order of the netlocs and
\* in the opposite order
ManyDomainLists ==
    LET lists == { ProfileList(p, 1) : p \in [1..MaxDomains -> DomainProfiles] }
    IN  lists \cup { Reverse(l) : l \in lists }

\* every short list of requests, and the page loads of many ad netlocs
RequestLists == SeqsUpTo(Requests, MaxRequests) \cup ManyDomainLists

\* tasks.py:165-166: the audit constructs a NetworkInterceptor and calls
\* analyze_requests on it once, with the requests of the crawl
NetCalls ==
    [ called : {FALSE}, n : {0}, requests : RequestLists, result : {<<>>} ]

AnalyzeRequests ==
    /\ ni_call # Idle
    /\ ~ni_call.called
    /\ LET r == analyze_requests(ni, ni_call.requests)
       IN  /\ ni' = r.self
           /\ ni_call' = [ni_call EXCEPT !.called = TRUE, !.n = 1, !.result = r.result]
    /\ UNCHANGED <<re_call, th, ad_call, hm_call, vc_call, rl_call, st_call, audit, jq>>

InitNet ==
    /\ ni = NewInterceptor
    /\ ni_call \in NetCalls
    /\ re_call = Idle
    /\ th = Idle
    /\ ad_call = Idle
    /\ hm_call = Idle
    /\ vc_call = Idle
    /\ rl_call = Idle
    /\ st_call = Idle
    /\ audit = Idle
    /\ jq = Idle

NextNet == AnalyzeRequests

\* analyze_requests on a newly constructed instance, for every request list
SpecNet == InitNet /\ [][NextNet]_vars

\* ---- one instance used for several calls, one after the other

\* calls made on the one instance
MaxCalls == 2

\* longest request list of a call on the reused instance
MaxReuseRequests == 2

ReuseRequests ==
    [ url    : {<<AdUrl(1)>>, <<BidderUrl>>},
      timing : {<<>>, <<0>>, <<10000>>, <<90000>>} ]

\* analyze_requests called on the instance as the calls before left it
AnalyzeRequestsAgain ==
    /\ ni_call.n < MaxCalls
    /\ \E requests \in SeqsUpTo(ReuseRequests, MaxReuseRequests) :
          LET r == analyze_requests(ni, requests)
          IN  /\ ni' = r.self
              /\ ni_call' = [ called |-> TRUE, n |-> ni_call.n + 1,
                              requests |-> requests, result |-> r.result ]
    /\ UNCHANGED <<re_call, th, ad_call, hm_call, vc_call, rl_call, st_call, audit, jq>>

InitReuse ==
    /\ ni = NewInterceptor
    /\ ni_call = [called |-> FALSE, n |-> 0, requests |-> <<>>, result |-> <<>>]
    /\ re_call = Idle
    /\ th = Idle
    /\ ad_call = Idle
    /\ hm_call = Idle
    /\ vc_call = Idle
    /\ rl_call = Idle
    /\ st_call = Idle
    /\ audit = Idle
    /\ jq = Idle

NextReuse == AnalyzeRequestsAgain

\* one NetworkInterceptor, analyze_requests called on it up to MaxCalls times
SpecReuse == InitReuse /\ [][NextReuse]_vars

\* ---- one instance shared by two threads that each run analyze_requests

Threads == {1, 2}

\* longest request list of a thread's call
MaxThreadRequests == 2

ThreadRequests ==
    [ url    : {<<AdUrl(1)>>, <<BidderUrl>>},
      timing : {<<0>>, <<10000>>} ]

\* lines 121-124: the thread points the shared fields at new lists
Begin(t) ==
    /\ th[t].pc = "begin"
    /\ ni' = begin_analysis(ni, th[t].requests)
    /\ th' = [th EXCEPT ![t].pc = "loop", ![t].i = 1]
    /\ UNCHANGED <<re_call, ni_call, ad_call, hm_call, vc_call, rl_call, st_call,
                   audit, jq>>

\* lines 126-128: one iteration of the loop over the thread's own argument
Categorize(t) ==
    /\ th[t].pc = "loop"
    /\ th[t].i <= Len(th[t].requests)
    /\ ni' = categorize_request(ni, th[t].requests[th[t].i])
    /\ th' = [th EXCEPT ![t].i = @ + 1]
    /\ UNCHANGED <<re_call, ni_call, ad_call, hm_call, vc_call, rl_call, st_call,
                   audit, jq>>

\* lines 131-175: the analyses read the shared fields and the dict is returned
Finish(t) ==
    /\ th[t].pc = "loop"
    /\ th[t].i > Len(th[t].requests)
    /\ ni' = end_analysis(ni)
    /\ th' = [th EXCEPT ![t].pc = "done", ![t].result = analysis_result(ni, th[t].requests)]
    /\ UNCHANGED <<re_call, ni_call, ad_call, hm_call, vc_call, rl_call, st_call,
                   audit, jq>>

InitThreads ==
    /\ ni = NewInterceptor
    /\ th \in [Threads -> [ pc : {"begin"}, i : {0},
                            requests : SeqsUpTo(ThreadRequests, MaxThreadRequests),
                            result : {<<>>} ]]
    /\ ni_call = Idle
    /\ re_call = Idle
    /\ ad_call = Idle
    /\ hm_call = Idle
    /\ vc_call = Idle
    /\ rl_call = Idle
    /\ st_call = Idle
    /\ audit = Idle
    /\ jq = Idle

NextThreads == \E t \in Threads : Begin(t) \/ Categorize(t) \/ Finish(t)

\* two analyze_requests calls on one instance, their steps interleaved
SpecThreads == InitThreads /\ [][NextThreads]_vars

-----------------------------------------------------------------------------
(* AdAnalyzer                                                              *)
(*                                                                         *)
(* An ad element is the record of what the analyzers read from it: y,      *)
(* width, height, visible, isHidden, isAboveFold, and `deceptive`, the     *)
(* number of entries _detect_deceptive_ads appends for its text and        *)
(* selector.  Densities and risk scores are carried in thousandths, the    *)
(* layout risk in hundredths.  A script is TRUE when its text contains one *)
(* of the aggressive names.  Only the lengths of stacked_ads and           *)
(* ad_requests are read.                                                   *)

\* a + b on rationals
RAdd(a, b) == Norm(<<a[1] * b[2] + b[1] * a[2], a[2] * b[2]>>)

\* min(x, 1.0) on a rational
RMinOne(x) == IF RLt(<<1, 1>>, x) THEN <<1, 1>> ELSE x

\* sum(ad.get("width", 0) * ad.get("height", 0) for ad in ad_elements
\*     if ad.get("visible", True))
RECURSIVE visible_ad_area(_)
visible_ad_area(ad_elements) ==
    IF ad_elements = <<>> THEN 0
    ELSE (IF Head(ad_elements).visible
          THEN Head(ad_elements).width * Head(ad_elements).height ELSE 0)
         + visible_ad_area(Tail(ad_elements))

\* AdAnalyzer._calculate_density
calculate_density(ad_count, ad_elements, total_elements, text_length, viewport_height) ==
    LET element_ratio    == <<ad_count, Max(total_elements, 1)>>
        ads_per_1k_chars == <<ad_count * 1000, Max(text_length, 1)>>
        viewport_area    == 1920 * viewport_height
        ad_area          == visible_ad_area(ad_elements)
        area_density     == <<ad_area, Max(viewport_area, 1)>>
        total == RAdd(RAdd(Norm(element_ratio),
                           Norm(<<ads_per_1k_chars[1], ads_per_1k_chars[2] * 10>>)),
                      Norm(<<2 * area_density[1], area_density[2]>>))
        density == RMinOne(Norm(<<total[1], total[2] * 3>>))
    IN  [ ad_density       |-> Round(density[1], density[2], 3),
          element_ratio    |-> Round(element_ratio[1], element_ratio[2], 3),
          ads_per_1k_chars |-> Round(ads_per_1k_chars[1], ads_per_1k_chars[2], 2),
          area_density     |-> Round(area_density[1], area_density[2], 3),
          is_excessive     |-> RLt(<<3, 10>>, density) \/ RLt(<<4, 10>>, area_density) ]

\* lines 221-232 of _detect_suspicious_patterns: one pattern for every script
\* that contains an aggressive name
RECURSIVE aggressive_script_patterns(_)
aggressive_script_patterns(scripts) ==
    IF scripts = <<>> THEN <<>>
    ELSE (IF Head(scripts)
          THEN << [type |-> "aggressive_ad_script", severity |-> "high"] >> ELSE <<>>)
         \o aggressive_script_patterns(Tail(scripts))

\* AdAnalyzer._detect_suspicious_patterns
ad_detect_suspicious_patterns(ad_count, ad_request_count, scripts, stacked_ads) ==
    (IF ad_count > 6 THEN << [type |-> "excessive_ads", severity |-> "high"] >> ELSE <<>>)
    \o (IF stacked_ads > 0
        THEN << [type |-> "ad_stacking", severity |-> "critical"] >> ELSE <<>>)
    \o (IF ad_request_count > 0 /\ ad_count > 0 /\ ad_request_count > 5 * ad_count
        THEN << [type |-> "hidden_ad_requests", severity |-> "medium"] >> ELSE <<>>)
    \o aggressive_script_patterns(scripts)

\* sum(1 for p in suspicious_patterns if p["severity"] == severity)
CountSeverity(patterns, severity) ==
    Cardinality({ i \in 1..Len(patterns) : patterns[i].severity = severity })

\* AdAnalyzer._calculate_risk_score, in thousandths; density in thousandths
calculate_risk_score(ad_count, density, suspicious_patterns, ad_request_count) ==
    LET count_part == IF ad_count > 10 THEN 300 ELSE IF ad_count > 6 THEN 200
                      ELSE IF ad_count > 3 THEN 100 ELSE 0
        high_severity   == CountSeverity(suspicious_patterns, "high")
        medium_severity == CountSeverity(suspicious_patterns, "medium")
        score == count_part + Min(density, 300)
                 + Min(high_severity * 150 + medium_severity * 80, 400)
    IN  Min(score, 1000)

\* AdAnalyzer._get_risk_level, risk_score in thousandths
ad_get_risk_level(risk_score) ==
    IF risk_score >= 700 THEN "high" ELSE IF risk_score >= 400 THEN "medium" ELSE "low"

\* AdAnalyzer._calculate_layout_risk, in hundredths
calculate_layout_risk(ad_elements, stacked_ads) ==
    IF ad_elements = <<>> THEN 0
    ELSE LET atf_ads    == Cardinality({ i \in 1..Len(ad_elements) :
                                           ad_elements[i].y < 1000 })
             hidden_ads == Cardinality({ i \in 1..Len(ad_elements) :
                                           ad_elements[i].isHidden })
             large_ads  == Cardinality({ i \in 1..Len(ad_elements) :
                              ad_elements[i].width * ad_elements[i].height > 300000 })
             risk == (IF atf_ads > 3 THEN 30 ELSE IF atf_ads > 1 THEN 15 ELSE 0)
                     + (IF stacked_ads > 0 THEN Min(stacked_ads * 25, 60) ELSE 0)
                     + (IF hidden_ads > 0 THEN Min(hidden_ads * 15, 40) ELSE 0)
                     + (IF large_ads > 0 THEN 15 ELSE 0)
         IN  Min(risk, 100)

\* sum(1 for v in video_elements if v.get(f))
CountVideos(video_elements, f) ==
    Cardinality({ i \in 1..Len(video_elements) : video_elements[i][f] })

\* AdAnalyzer._analyze_video_players; risk_score in thousandths
analyze_video_players(video_elements) ==
    IF video_elements = <<>>
    THEN [ video_count |-> 0, autoplay_count |-> 0, muted_autoplay |-> FALSE,
           hidden_videos |-> 0, sticky_videos |-> 0, video_stuffing |-> FALSE,
           risk_score |-> 0 ]
    ELSE LET video_count    == Len(video_elements)
             autoplay_count == CountVideos(video_elements, "autoplay")
             muted_count    == CountVideos(video_elements, "muted")
             hidden_count   == CountVideos(video_elements, "isHidden")
             sticky_count   == CountVideos(video_elements, "isSticky")
             video_stuffing == video_count > 5
             muted_autoplay == autoplay_count > 0 /\ muted_count > 0
             risk_score == (IF video_stuffing THEN 300 ELSE 0)
                           + (IF muted_autoplay THEN 250 ELSE 0)
                           + (IF hidden_count > 0 THEN Min(hidden_count * 150, 300) ELSE 0)
                           + (IF sticky_count > 2 THEN 200 ELSE 0)
         IN  [ video_count |-> video_count, autoplay_count |-> autoplay_count,
               muted_autoplay |-> muted_autoplay, hidden_videos |-> hidden_count,
               sticky_videos |-> sticky_count, video_stuffing |-> video_stuffing,
               risk_score |-> Min(risk_score, 1000) ]

\* AdAnalyzer.analyze.  `crawl` is what it reads from the crawl result; no step
\* of it raises on these inputs, so the except branch is not taken.
\* risk_score and layout_risk are the returned round(., 2), in hundredths.
ad_analyze(crawl) ==
    LET ad_elements      == crawl.ad_elements
        ad_count         == Len(ad_elements)
        ad_request_count == crawl.ad_requests
        density_metrics ==
            calculate_density(ad_count, ad_elements, crawl.total_elements,
                              crawl.text_length, Get(crawl.viewportHeight, 1080))
        suspicious_patterns ==
            ad_detect_suspicious_patterns(ad_count, ad_request_count, crawl.scripts,
                                          crawl.stacked_ads)
        video_analysis == analyze_video_players(crawl.video_elements)
        first_score == calculate_risk_score(ad_count, density_metrics.ad_density,
                                            suspicious_patterns, ad_request_count)
        \* line 84: the video risk scores are multiples of 0.05
        risk_score == Min(1000, first_score + (video_analysis.risk_score * 3) \div 10)
        layout_risk == calculate_layout_risk(ad_elements, crawl.stacked_ads)
    IN  [ ad_count            |-> ad_count,
          ad_request_count    |-> ad_request_count,
          stacked_ads_count   |-> crawl.stacked_ads,
          density             |-> density_metrics,
          suspicious_patterns |-> suspicious_patterns,
          video_analysis      |-> video_analysis,
          risk_score          |-> Round(risk_score, 1000, 2),
          layout_risk         |-> layout_risk,
          risk_level          |-> ad_get_risk_level(risk_score) ]

-----------------------------------------------------------------------------
(* AdHeatmapGenerator                                                      *)
(*                                                                         *)
(* Band densities are carried in ten-thousandths (round(., 4)).  A call    *)
(* that raises gives [raised |-> TRUE].                                    *)

\* int(a / b) for b # 0: the quotient cut towards zero
IntQuotient(a, b) ==
    IF (a >= 0) = (b > 0) THEN Abs(a) \div Abs(b) ELSE 0 - (Abs(a) \div Abs(b))

\* AdHeatmapGenerator._ad_in_range
ad_in_range(ad, top, bottom) ==
    LET ad_top    == ad.y
        ad_bottom == ad_top + ad.height
    IN  ad_bottom > top /\ ad_top < bottom

\* AdHeatmapGenerator._get_ad_area
get_ad_area(ad) == ad.width * ad.height

RECURSIVE level_ad_area(_, _, _)
level_ad_area(ad_elements, top, bottom) ==
    IF ad_elements = <<>> THEN 0
    ELSE (IF ad_in_range(Head(ad_elements), top, bottom)
          THEN get_ad_area(Head(ad_elements)) ELSE 0)
         + level_ad_area(Tail(ad_elements), top, bottom)

\* the body of the loop of analyze (lines 124-149) for level i
scroll_level(ad_elements, i, viewport_height, viewport_width) ==
    LET level_top     == i * viewport_height
        level_bottom  == level_top + viewport_height
        in_level      == { k \in 1..Len(ad_elements) :
                             ad_in_range(ad_elements[k], level_top, level_bottom) }
        viewport_area == viewport_height * viewport_width
        total_ad_area == level_ad_area(ad_elements, level_top, level_bottom)
    IN  [ level_index     |-> i,
          scroll_y        |-> level_top,
          viewport_height |-> viewport_height,
          ad_count        |-> Cardinality(in_level),
          total_ad_area   |-> total_ad_area,
          ad_density      |-> IF viewport_area > 0
                              THEN Round(total_ad_area, viewport_area, 4)
                              ELSE 0 - Round(total_ad_area, 0 - viewport_area, 4),
          ads_above_fold  |-> IF i = 0
                              THEN Cardinality({ k \in in_level :
                                                   ad_elements[k].isAboveFold })
                              ELSE 0 ]

RECURSIVE SumLevels(_, _)
SumLevels(levels, f) ==
    IF levels = <<>> THEN 0 ELSE Head(levels)[f] + SumLevels(Tail(levels), f)

\* AdHeatmapGenerator._calculate_mfa_score; avg_density is a rational
calculate_mfa_score(levels, avg_density, ads_above_fold, deceptive_count) ==
    LET density_part == IF RLt(<<4, 10>>, avg_density) THEN 30
                        ELSE IF RLt(<<25, 100>>, avg_density) THEN 20
                        ELSE IF RLt(<<15, 100>>, avg_density) THEN 10
                        ELSE IF RLt(<<8, 100>>, avg_density) THEN 5 ELSE 0
        fold_part == IF ads_above_fold > 4 THEN 20
                     ELSE IF ads_above_fold > 2 THEN 12
                     ELSE IF ads_above_fold > 1 THEN 5 ELSE 0
        half        == Len(levels) \div 2
        first_half  == SubSeq(levels, 1, half)
        second_half == SubSeq(levels, half + 1, Len(levels))
        first_sum   == SumLevels(first_half, "ad_count")
        second_sum  == SumLevels(second_half, "ad_count")
        \* second_avg > first_avg * 1.5, and > first_avg * 1.2
        scroll_part == IF Len(levels) > 3
                       THEN IF 2 * second_sum * Len(first_half)
                                 > 3 * first_sum * Len(second_half) THEN 25
                            ELSE IF 5 * second_sum * Len(first_half)
                                      > 6 * first_sum * Len(second_half) THEN 15
                            ELSE 0
                       ELSE 0
        deceptive_part == IF deceptive_count > 3 THEN 25
                          ELSE IF deceptive_count > 1 THEN 15
                          ELSE IF deceptive_count > 0 THEN 8 ELSE 0
    IN  Min(100, density_part + fold_part + scroll_part + deceptive_part)

\* AdHeatmapGenerator._get_risk_level
heatmap_get_risk_level(score) ==
    IF score >= 60 THEN "high" ELSE IF score >= 30 THEN "medium" ELSE "low"

\* len(self._detect_deceptive_ads(all_ads))
RECURSIVE deceptive_ad_count(_)
deceptive_ad_count(all_ads) ==
    IF all_ads = <<>> THEN 0 ELSE Head(all_ads).deceptive + deceptive_ad_count(Tail(all_ads))

\* AdHeatmapGenerator._empty_result
heatmap_empty_result ==
    [ raised |-> FALSE, levels |-> <<>>, total_scroll_levels |-> 0,
      total_ads_detected |-> 0, avg_ad_density |-> 0, ads_above_fold |-> 0,
      ad_distribution |-> [top |-> 0, middle |-> 0, bottom |-> 0],
      infinite_ads_pattern |-> FALSE, scroll_trap_detected |-> FALSE,
      deceptive_ad_count |-> 0, mfa_score |-> 0, risk_level |-> "low" ]

\* the comparison of the last bands on pages of any number of bands
infinite_ads_pattern_mut(levels) ==
    \A i \in Max(1, Len(levels) - 3)..(Len(levels) - 1) :
       10 * levels[i + 1].ad_count >= 8 * levels[i].ad_count

\* infinite_ads_pattern of _analyze_heatmap (lines 183-187);
\* range(max(1, len - 3), len) runs over 0-based indexes
infinite_ads_pattern(levels) ==
    /\ Len(levels) > 3
    /\ \A i \in Max(1, Len(levels) - 3)..(Len(levels) - 1) :
          10 * levels[i + 1].ad_count >= 8 * levels[i].ad_count

\* AdHeatmapGenerator._analyze_heatmap
analyze_heatmap(levels, all_ads) ==
    IF levels = <<>> THEN heatmap_empty_result
    ELSE LET n              == Len(levels)
             total_ads      == SumLevels(levels, "ad_count")
             density_sum    == SumLevels(levels, "ad_density")
             avg_density    == Norm(<<density_sum, 10000 * n>>)
             ads_above_fold == levels[1].ads_above_fold
             scroll_trap_detected == RLt(<<25, 100>>, avg_density)
             third == Max(1, n \div 3)
             deceptive_count == deceptive_ad_count(all_ads)
             mfa_score == calculate_mfa_score(levels, avg_density, ads_above_fold,
                                              deceptive_count)
         IN  [ raised               |-> FALSE,
               levels               |-> levels,
               total_scroll_levels  |-> n,
               total_ads_detected   |-> total_ads,
               avg_ad_density       |-> Round(density_sum, n, 0),
               ads_above_fold       |-> ads_above_fold,
               ad_distribution      |->
                   [ top    |-> SumLevels(SubSeq(levels, 1, Min(third, n)), "ad_count"),
                     middle |-> SumLevels(SubSeq(levels, third + 1, Min(2 * third, n)),
                                          "ad_count"),
                     bottom |-> SumLevels(SubSeq(levels, 2 * third + 1, n), "ad_count") ],
               infinite_ads_pattern |-> infinite_ads_pattern(levels),
               scroll_trap_detected |-> scroll_trap_detected,
               deceptive_ad_count   |-> deceptive_count,
               mfa_score            |-> mfa_score,
               risk_level           |-> heatmap_get_risk_level(mfa_score) ]

\* AdHeatmapGenerator.analyze.  page_dimensions is [totalHeight, viewportWidth],
\* both options.  The divisions of lines 120 and 139 raise ZeroDivisionError.
heatmap_analyze(ad_elements, page_dimensions, viewport_height) ==
    IF ad_elements = <<>> THEN heatmap_empty_result
    ELSE LET total_height   == Get(page_dimensions.totalHeight, viewport_height)
             viewport_width == Get(page_dimensions.viewportWidth, 1920)
         IN  IF viewport_height = 0 \/ viewport_height * viewport_width = 0
             THEN [raised |-> TRUE]
             ELSE LET num_levels == Max(1, IntQuotient(total_height, viewport_height))
                      levels == [ k \in 1..Min(num_levels, 10) |->
                                    scroll_level(ad_elements, k - 1, viewport_height,
                                                 viewport_width) ]
                  IN  analyze_heatmap(levels, ad_elements)

-----------------------------------------------------------------------------
(* ViewabilityChecker                                                      *)
(*                                                                         *)
(* An ad is [boundingBox, zIndex]: the first an option holding [top, left,  *)
(* right, bottom], the second an option holding the z-index.               *)
(* The viewport is <<>> (None) or <<[width, height]>>, as documented.      *)
(* Intersection ratios are rationals; the rounded ratio (round(., 3)) is   *)
(* carried in thousandths, percentages (round(., 2)) in hundredths of a    *)
(* percent.  hidden_ads, issues and recommended_actions are left out.      *)

\* the ratio computed without the test for an empty intersection
calculate_intersection_ratio_mut(bbox, viewport) ==
    IF bbox = <<>> THEN <<0, 1>>
    ELSE LET intersection_area ==
                 (Min(bbox[1].right, viewport.width) - Max(bbox[1].left, 0))
                 * (Min(bbox[1].bottom, viewport.height) - Max(bbox[1].top, 0))
             element_area == (bbox[1].right - bbox[1].left) * (bbox[1].bottom - bbox[1].top)
         IN  IF element_area = 0 THEN <<0, 1>>
             ELSE Norm(<<intersection_area, element_area>>)

\* ViewabilityChecker._calculate_intersection_ratio: a rational
calculate_intersection_ratio(bbox, viewport) ==
    IF bbox = <<>> THEN <<0, 1>>
    ELSE LET top    == bbox[1].top
             left   == bbox[1].left
             right  == bbox[1].right
             bottom == bbox[1].bottom
             viewport_bottom == viewport.height
             viewport_right  == viewport.width
             int_top    == Max(top, 0)
             int_left   == Max(left, 0)
             int_bottom == Min(bottom, viewport_bottom)
             int_right  == Min(right, viewport_right)
             intersection_area == (int_right - int_left) * (int_bottom - int_top)
             element_area      == (right - left) * (bottom - top)
         IN  IF int_top >= int_bottom \/ int_left >= int_right THEN <<0, 1>>
             ELSE IF element_area = 0 THEN <<0, 1>>
             ELSE Norm(<<intersection_area, element_area>>)

\* ViewabilityChecker._analyze_ad: what the later steps read of it
analyze_ad(self, ad, viewport, id) ==
    LET intersection_ratio == calculate_intersection_ratio(ad.boundingBox, viewport)
        is_viewable        == RLe(self.min_visibility_ratio, intersection_ratio)
        has_valid_z_index  == ad.zIndex = <<>> \/ ad.zIndex[1] >= 0
    IN  [ id                 |-> id,
          intersection_ratio |-> Round(intersection_ratio[1], intersection_ratio[2], 3),
          is_viewable        |-> is_viewable /\ has_valid_z_index,
          occluded           |-> ~has_valid_z_index ]

\* the category _categorize_by_viewability appends an analysed ad to
viewability_category(self, ad) ==
    IF RLe(self.min_visibility_ratio, <<ad.intersection_ratio, 1000>>) THEN "viewable"
    ELSE IF ad.intersection_ratio > 0 THEN "partially_viewable"
    ELSE "not_viewable"

\* the ads of one category, in the order of the list
RECURSIVE ads_of_category(_, _, _)
ads_of_category(self, ads, category) ==
    IF ads = <<>> THEN <<>>
    ELSE (IF viewability_category(self, Head(ads)) = category THEN <<Head(ads)>> ELSE <<>>)
         \o ads_of_category(self, Tail(ads), category)

\* ViewabilityChecker._categorize_by_viewability
categorize_by_viewability(self, ads) ==
    [ viewable           |-> ads_of_category(self, ads, "viewable"),
      partially_viewable |-> ads_of_category(self, ads, "partially_viewable"),
      not_viewable       |-> ads_of_category(self, ads, "not_viewable") ]

\* ViewabilityChecker._calculate_metrics
calculate_metrics(categorized) ==
    LET total == Len(categorized.viewable) + Len(categorized.partially_viewable)
                 + Len(categorized.not_viewable)
    IN  IF total = 0
        THEN [ total_ads |-> 0, viewable_count |-> 0, partially_viewable_count |-> 0,
               not_viewable_count |-> 0, viewable_percentage |-> 0,
               partially_viewable_percentage |-> 0, not_viewable_percentage |-> 0 ]
        ELSE [ total_ads                |-> total,
               viewable_count           |-> Len(categorized.viewable),
               partially_viewable_count |-> Len(categorized.partially_viewable),
               not_viewable_count       |-> Len(categorized.not_viewable),
               viewable_percentage      |->
                   Round(Len(categorized.viewable) * 100, total, 2),
               partially_viewable_percentage |->
                   Round(Len(categorized.partially_viewable) * 100, total, 2),
               not_viewable_percentage  |->
                   Round(Len(categorized.not_viewable) * 100, total, 2) ]

\* the entries analyze returns for the viewable and the partially viewable ads
category_entries(ads) ==
    [i \in 1..Len(ads) |-> [id |-> ads[i].id, ratio |-> ads[i].intersection_ratio]]

\* the entries analyze returns for the ads that are not viewable
offscreen_entries(ads) ==
    [i \in 1..Len(ads) |-> [id |-> ads[i].id, reason |-> "offscreen"]]

\* ViewabilityChecker._empty_result
viewability_empty_result ==
    [ metrics        |-> [total_ads |-> 0, viewable_percentage |-> 0],
      categorization |-> [viewable |-> <<>>, partially_viewable |-> <<>>,
                          not_viewable |-> <<>>],
      summary        |-> [mrc_compliant |-> TRUE, compliance_status |-> "no_ads"] ]

\* ViewabilityChecker.analyze
viewability_analyze(self, ad_elements, viewport_arg) ==
    LET viewport == Get(viewport_arg, [width |-> 1920, height |-> 1080])
    IN  IF ad_elements = <<>> THEN viewability_empty_result
        ELSE LET analyzed_ads == [i \in 1..Len(ad_elements) |->
                                    analyze_ad(self, ad_elements[i], viewport, i)]
                 categorized  == categorize_by_viewability(self, analyzed_ads)
                 metrics      == calculate_metrics(categorized)
             IN  [ metrics        |-> metrics,
                   categorization |->
                       [ viewable           |-> category_entries(categorized.viewable),
                         partially_viewable |->
                             category_entries(categorized.partially_viewable),
                         not_viewable       |-> offscreen_entries(categorized.not_viewable) ],
                   summary        |->
                       [ mrc_compliant     |-> metrics.viewable_percentage >= 5000,
                         compliance_status |-> IF metrics.viewable_percentage >= 5000
                                               THEN "compliant" ELSE "non_compliant" ] ]

-----------------------------------------------------------------------------
(* The arguments of AdAnalyzer.analyze and AdHeatmapGenerator.analyze      *)

\* longest list of ad elements put together from the shapes below
MaxAds == 3

\* a 300x250 rectangle below the fold, in the third viewport of the page
Rect ==
    [ y |-> 2500, width |-> 300, height |-> 250, visible |-> TRUE,
      isHidden |-> FALSE, isAboveFold |-> FALSE, deceptive |-> 0 ]

\* a 728x90 banner at the top of the page, with deceptive text
Banner ==
    [ y |-> 0, width |-> 728, height |-> 90, visible |-> TRUE,
      isHidden |-> FALSE, isAboveFold |-> TRUE, deceptive |-> 1 ]

\* an ad twice as tall as the 1920x1080 viewport
Oversized ==
    [ y |-> 0, width |-> 1920, height |-> 2160, visible |-> TRUE,
      isHidden |-> FALSE, isAboveFold |-> TRUE, deceptive |-> 0 ]

\* a rectangle reported with a negative width
NegativeWidth ==
    [ y |-> 0, width |-> 0 - 1920, height |-> 1080, visible |-> TRUE,
      isHidden |-> FALSE, isAboveFold |-> TRUE, deceptive |-> 0 ]

\* a hidden 300x250 rectangle, with deceptive text and a download selector
HiddenAd ==
    [ y |-> 0, width |-> 300, height |-> 250, visible |-> FALSE,
      isHidden |-> TRUE, isAboveFold |-> TRUE, deceptive |-> 2 ]

AdShapes == {Rect, Banner, Oversized, NegativeWidth, HiddenAd}

\* ad counts on both sides of the tiers 3, 6 and 10 of _calculate_risk_score
AdCounts == {4, 7, 8, 11}

Repeat(x, n) == [i \in 1..n |-> x]

\* the short lists of any shapes, and the long lists of one plain shape
AdLists ==
    (SeqsUpTo(AdShapes, MaxAds) \ {<<>>})
    \cup { Repeat(shape, n) : shape \in {Rect, Banner}, n \in AdCounts }

PlainVideo == [autoplay |-> FALSE, muted |-> FALSE, isHidden |-> TRUE, isSticky |-> FALSE]
LoudVideo == [autoplay |-> TRUE, muted |-> TRUE, isHidden |-> TRUE, isSticky |-> TRUE]

\* no video, one hidden video, six muted autoplaying hidden sticky videos
VideoLists == { <<>>, <<PlainVideo>>, Repeat(LoudVideo, 6) }

\* no script, one aggressive script, a list with three aggressive scripts
ScriptLists == { <<>>, <<TRUE>>, <<FALSE, TRUE, TRUE, TRUE>> }

\* len(links) + len(images) and len(text): an empty page and a page with content
Pages == { [total_elements |-> 0, text_length |-> 0],
           [total_elements |-> 10, text_length |-> 10000] }

\* tasks.py:183: what AdAnalyzer.analyze reads from the crawl result
AdCalls ==
    { [ called |-> FALSE, result |-> <<>>,
        crawl |-> [ ad_elements    |-> a,
                    stacked_ads    |-> st,
                    ad_requests    |-> rq,
                    scripts        |-> sc,
                    video_elements |-> v,
                    total_elements |-> p.total_elements,
                    text_length    |-> p.text_length,
                    viewportHeight |-> vh ] ] :
        a \in AdLists \cup {<<>>}, st \in {0, 1, 3}, rq \in {0, 6}, sc \in ScriptLists,
        v \in VideoLists, p \in Pages, vh \in {<<>>, <<540>>} }

\* an oversized ad at the top of the page and four rectangles further down
MixedLists == { <<Oversized>> \o Repeat(Rect, 4) }

\* the arguments of AdHeatmapGenerator.analyze: pages of 1, 3, 4 and 10 bands
HeatmapCalls ==
    [ called          : {FALSE},
      result          : {<<>>},
      ad_elements     : AdLists \cup MixedLists \cup {<<>>},
      page_dimensions : [ totalHeight   : {<<>>, <<0>>, <<3240>>, <<4320>>, <<21600>>},
                          viewportWidth : {<<>>, <<0>>} ],
      viewport_height : {1080, 0} ]

\* longest list of ads given to ViewabilityChecker.analyze
MaxViewAds == 3

Box(top, left, right, bottom) ==
    [ boundingBox |-> << [top |-> top, left |-> left, right |-> right, bottom |-> bottom] >>,
      zIndex      |-> <<>> ]

\* a rectangle inside the viewport with a negative z-index, and one with a
\* positive z-index
Occluded == [Box(100, 100, 400, 350) EXCEPT !.zIndex = <<0 - 1>>]
Raised == [Box(100, 100, 400, 350) EXCEPT !.zIndex = <<10>>]

\* rectangles against the 1920x1080 viewport: inside it, equal to it, half and a
\* quarter inside, 1499/3000 inside (0.4997, rounded 0.5), below it, touching its
\* right edge, of zero area, inverted in one and in both directions; an ad
\* without a boundingBox; and the two ads with a z-index
ViewBoxes ==
    { Box(100, 100, 400, 350), Box(0, 0, 1920, 1080), Box(0, 1770, 2070, 250),
      Box(0, 1845, 2145, 250), Box(0, 0 - 1501, 1499, 100), Box(2000, 0, 300, 2250),
      Box(0, 1920, 2220, 250), Box(100, 100, 100, 100), Box(350, 100, 400, 100),
      Box(350, 400, 100, 100), [boundingBox |-> <<>>, zIndex |-> <<>>],
      Occluded, Raised }

\* the viewport argument: None, 800x600, and a viewport of width and height 0
Viewports ==
    { <<>>, << [width |-> 800, height |-> 600] >>, << [width |-> 0, height |-> 0] >> }

\* min_visibility_ratio: the default 0.5, and 0.3
VisibilityRatios == { <<1, 2>>, <<3, 10>> }

\* the arguments of ViewabilityChecker.analyze and the instance it is called on
ViewabilityCalls ==
    [ called      : {FALSE},
      result      : {<<>>},
      self        : [min_visibility_ratio : VisibilityRatios],
      ad_elements : SeqsUpTo(ViewBoxes, MaxViewAds),
      viewport    : Viewports ]

AnalyzeViewability ==
    /\ vc_call # Idle
    /\ ~vc_call.called
    /\ vc_call' = [vc_call EXCEPT
                     !.called = TRUE,
                     !.result = viewability_analyze(vc_call.self, vc_call.ad_elements,
                                                    vc_call.viewport)]
    /\ UNCHANGED <<re_call, ni, ni_call, th, ad_call, hm_call, rl_call, st_call,
                   audit, jq>>

InitViewability ==
    /\ vc_call \in ViewabilityCalls
    /\ re_call = Idle
    /\ ni = Idle
    /\ ni_call = Idle
    /\ th = Idle
    /\ ad_call = Idle
    /\ hm_call = Idle
    /\ rl_call = Idle
    /\ st_call = Idle
    /\ audit = Idle
    /\ jq = Idle

NextViewability == AnalyzeViewability

\* ViewabilityChecker.analyze applied to every list of ads
SpecViewability == InitViewability /\ [][NextViewability]_vars

AnalyzeAds ==
    /\ ad_call # Idle
    /\ ~ad_call.called
    /\ ad_call' = [ad_call EXCEPT !.called = TRUE, !.result = ad_analyze(ad_call.crawl)]
    /\ UNCHANGED <<re_call, ni, ni_call, th, hm_call, vc_call, rl_call, st_call,
                   audit, jq>>

AnalyzeHeatmap ==
    /\ hm_call # Idle
    /\ ~hm_call.called
    /\ hm_call' = [hm_call EXCEPT
                     !.called = TRUE,
                     !.result = heatmap_analyze(hm_call.ad_elements,
                                                hm_call.page_dimensions,
                                                hm_call.viewport_height)]
    /\ UNCHANGED <<re_call, ni, ni_call, th, ad_call, vc_call, rl_call, st_call,
                   audit, jq>>

\* one analysis component is about to be called once: AdAnalyzer on a crawl
\* result, AdHeatmapGenerator or ViewabilityChecker on a list of ad elements, or
\* a new NetworkInterceptor on a request list
InitAnalyzers ==
    /\ re_call = Idle
    /\ th = Idle
    /\ rl_call = Idle
    /\ st_call = Idle
    /\ audit = Idle
    /\ jq = Idle
    /\ \/ /\ ad_call \in AdCalls
          /\ hm_call = Idle /\ vc_call = Idle /\ ni = Idle /\ ni_call = Idle
       \/ /\ hm_call \in HeatmapCalls
          /\ ad_call = Idle /\ vc_call = Idle /\ ni = Idle /\ ni_call = Idle
       \/ /\ vc_call \in ViewabilityCalls
          /\ ad_call = Idle /\ hm_call = Idle /\ ni = Idle /\ ni_call = Idle
       \/ /\ ni = NewInterceptor /\ ni_call \in NetCalls
          /\ ad_call = Idle /\ hm_call = Idle /\ vc_call = Idle

NextAnalyzers == AnalyzeAds \/ AnalyzeHeatmap \/ AnalyzeViewability \/ AnalyzeRequests

\* each analysis component applied to every input
SpecAnalyzers == InitAnalyzers /\ [][NextAnalyzers]_vars

-----------------------------------------------------------------------------
(* Page loads with many requests                                           *)

\* a URL that matches the Prebid patterns only, and one that matches the VAST
\* patterns only
PrebidUrl == [BidderUrl EXCEPT !.vast = FALSE]
VastUrl == [BidderUrl EXCEPT !.prebid = FALSE]

\* numbers of ad requests on both sides of the thresholds 25, 50 and 100
AdVolumes == {0, 26, 51, 101}

\* ms between two ad requests to one netloc: flagged HIGH, flagged MEDIUM, not flagged
Spacings == {10000, 45000, 100000}

\* numbers of ad networks (one netloc each) on both sides of the threshold 15
NetworkCounts == {15, 16}

\* n ad requests spread in turn over k netlocs, `spacing` ms apart on each
VolumeAdRequests(n, spacing, k) ==
    [i \in 1..n |-> [ url    |-> <<AdUrl(1 + ((i - 1) % k))>>,
                      timing |-> <<((i - 1) \div k) * spacing>> ]]

\* the request list of a page load with many ad requests, with Prebid requests
\* and VAST requests after them
VolumeRequests(n, spacing, k, prebid, vast) ==
    VolumeAdRequests(n, spacing, k)
    \o Repeat([url |-> <<PrebidUrl>>, timing |-> <<0>>], prebid)
    \o Repeat([url |-> <<VastUrl>>, timing |-> <<0>>], vast)

\* the instance as lines 121-128 of analyze_requests leave a new instance for
\* that request list: the lists the loop has filled
VolumeInstance(n, spacing, k, prebid, vast) ==
    [ NewInterceptor EXCEPT
        !.requests = VolumeRequests(n, spacing, k, prebid, vast),
        !.ad_requests =
            [i \in 1..n |-> [ url     |-> AdUrl(1 + ((i - 1) % k)),
                              network |-> 1 + ((i - 1) % k),
                              timing  |-> ((i - 1) \div k) * spacing ]],
        !.prebid_events = Repeat([url |-> PrebidUrl, timestamp |-> 0], prebid),
        !.vast_calls = Repeat([url |-> VastUrl, timestamp |-> 0], vast),
        !.refresh_patterns =
            [d \in 1..Min(k, n) |->
               [ domain  |-> d,
                 timings |-> [j \in 1..Cardinality({ i \in 1..n : (i - 1) % k = d - 1 })
                                |-> (j - 1) * spacing] ]] ]

\* page loads with many ad requests, with 0 or 11 Prebid requests and 0 or 6
\* VAST requests
VolumeInstances ==
    { VolumeInstance(n, spacing, k, prebid, vast) :
        n \in AdVolumes, spacing \in Spacings, k \in NetworkCounts,
        prebid \in {0, 11}, vast \in {0, 6} }

\* lines 131-175 of analyze_requests: the analyses, and the returned dict
FinishAnalysis ==
    /\ ni_call # Idle
    /\ ~ni_call.called
    /\ ni' = end_analysis(ni)
    /\ ni_call' = [ni_call EXCEPT !.called = TRUE, !.n = 1,
                                  !.result = analysis_result(ni, ni_call.requests)]
    /\ UNCHANGED <<re_call, th, ad_call, hm_call, vc_call, rl_call, st_call, audit, jq>>

InitVolume ==
    /\ ni \in VolumeInstances
    /\ ni_call = [called |-> FALSE, n |-> 0, requests |-> ni.requests, result |-> <<>>]
    /\ re_call = Idle
    /\ th = Idle
    /\ ad_call = Idle
    /\ hm_call = Idle
    /\ vc_call = Idle
    /\ rl_call = Idle
    /\ st_call = Idle
    /\ audit = Idle
    /\ jq = Idle

NextVolume == FinishAnalysis

\* analyze_requests on a newly constructed instance for page loads with many
\* requests, from the end of its loop
SpecVolume == InitVolume /\ [][NextVolume]_vars

-----------------------------------------------------------------------------
(* The risk level of one score in every component                          *)

\* scores from 0 to 1, in hundredths
Scores == 0..100

\* _get_risk_level of RiskEngine and AdAnalyzer on the score, and of
\* AdHeatmapGenerator and NetworkInterceptor on the score times 100
GetRiskLevels ==
    /\ rl_call # Idle
    /\ ~rl_call.called
    /\ rl_call' = [rl_call EXCEPT
                     !.called = TRUE,
                     !.result = << [ risk_engine |-> get_risk_level(<<rl_call.score, 100>>),
                                     ad_analyzer |-> ad_get_risk_level(rl_call.score * 10),
                                     heatmap     |-> heatmap_get_risk_level(rl_call.score),
                                     network     |-> network_get_risk_level(rl_call.score) ] >>]
    /\ UNCHANGED <<re_call, ni, ni_call, th, ad_call, hm_call, vc_call, st_call,
                   audit, jq>>

InitLevels ==
    /\ \E s \in Scores : rl_call = [called |-> FALSE, score |-> s, result |-> <<>>]
    /\ re_call = Idle
    /\ ni = Idle
    /\ ni_call = Idle
    /\ th = Idle
    /\ ad_call = Idle
    /\ hm_call = Idle
    /\ vc_call = Idle
    /\ st_call = Idle
    /\ audit = Idle
    /\ jq = Idle

NextLevels == GetRiskLevels

\* the four _get_risk_level methods applied to one score
SpecLevels == InitLevels /\ [][NextLevels]_vars

-----------------------------------------------------------------------------
(* The stacking scan of the crawler (js_code of AuditCrawler.crawl)        *)
(*                                                                         *)
(* A detected ad is [x, y, width, height] in pixels, width and height      *)
(* positive (the scan of the selectors pushes no other element).  Indices  *)
(* adA and adB count from 0 as in the script; overlapPct is a rational.    *)

\* const overlapX = Math.max(0, Math.min(a.x + a.width, b.x + b.width) - Math.max(a.x, b.x))
overlapX(a, b) == Max(0, Min(a.x + a.width, b.x + b.width) - Max(a.x, b.x))

\* const overlapY = Math.max(0, Math.min(a.y + a.height, b.y + b.height) - Math.max(a.y, b.y))
overlapY(a, b) == Max(0, Min(a.y + a.height, b.y + b.height) - Max(a.y, b.y))

\* the test on one side only: overlapPctA > 0.5
stacked_entry_mut(ads, i, j) ==
    LET a == ads[i + 1]
        b == ads[j + 1]
        overlapArea == overlapX(a, b) * overlapY(a, b)
    IN  IF overlapArea > 0 /\ RLt(<<1, 2>>, <<overlapArea, a.width * a.height>>)
        THEN << [adA |-> i, adB |-> j,
                 overlapPct |-> Norm(<<overlapArea, a.width * a.height>>)] >>
        ELSE <<>>

\* the body of the inner loop for ads[i] and ads[j]: what it pushes to stackedAds
stacked_entry(ads, i, j) ==
    LET a == ads[i + 1]
        b == ads[j + 1]
        overlapArea == overlapX(a, b) * overlapY(a, b)
    IN  IF overlapArea > 0
        THEN LET areaA == a.width * a.height
                 areaB == b.width * b.height
                 overlapPctA == <<overlapArea, areaA>>
                 overlapPctB == <<overlapArea, areaB>>
             IN  IF RLt(<<1, 2>>, overlapPctA) \/ RLt(<<1, 2>>, overlapPctB)
                 THEN << [adA |-> i, adB |-> j,
                          overlapPct |-> IF RLt(overlapPctA, overlapPctB)
                                         THEN Norm(overlapPctB) ELSE Norm(overlapPctA)] >>
                 ELSE <<>>
        ELSE <<>>

\* for (let j = from; j < ads.length; j++)
RECURSIVE stacked_inner(_, _, _)
stacked_inner(ads, i, j) ==
    IF j >= Len(ads) THEN <<>>
    ELSE stacked_entry(ads, i, j) \o stacked_inner(ads, i, j + 1)

\* for (let i = from; i < ads.length; i++) for (let j = i + 1; ...)
RECURSIVE stacked_outer(_, _)
stacked_outer(ads, i) ==
    IF i >= Len(ads) THEN <<>>
    ELSE stacked_inner(ads, i, i + 1) \o stacked_outer(ads, i + 1)

\* stackedAds at the end of the scan
stackedAds(ads) == stacked_outer(ads, 0)

\* longest list of detected ads
MaxStackAds == 3

Placed(x, y, width, height) == [x |-> x, y |-> y, width |-> width, height |-> height]

\* a 300x250 rectangle; the same shifted by half and by a third of its width; a
\* small rectangle inside it; a large one that covers it; one that touches its
\* right edge; one far away from it
StackShapes ==
    { Placed(0, 0, 300, 250), Placed(150, 0, 300, 250), Placed(100, 0, 300, 250),
      Placed(10, 10, 100, 50), Placed(0 - 100, 0 - 50, 970, 500),
      Placed(300, 0, 300, 250), Placed(2000, 3000, 300, 250) }

\* the ads array of the script; an element that matches two selectors is in it twice
StackCalls ==
    [ called : {FALSE}, result : {<<>>}, ads : SeqsUpTo(StackShapes, MaxStackAds) ]

DetectStacking ==
    /\ st_call # Idle
    /\ ~st_call.called
    /\ st_call' = [st_call EXCEPT !.called = TRUE, !.result = stackedAds(st_call.ads)]
    /\ UNCHANGED <<re_call, ni, ni_call, th, ad_call, hm_call, vc_call, rl_call,
                   audit, jq>>

InitStacking ==
    /\ st_call \in StackCalls
    /\ audit = Idle
    /\ jq = Idle
    /\ re_call = Idle
    /\ ni = Idle
    /\ ni_call = Idle
    /\ th = Idle
    /\ ad_call = Idle
    /\ hm_call = Idle
    /\ vc_call = Idle
    /\ rl_call = Idle

NextStacking == DetectStacking

\* the stacking scan applied to every list of detected ads
SpecStacking == InitStacking /\ [][NextStacking]_vars

-----------------------------------------------------------------------------
(* The audit flow _run_audit_async                                         *)
(*                                                                         *)
(* A page is the crawl result of the primary URL: its crawl_status, what   *)
(* AdAnalyzer reads from it, and the result ContentAnalyzer computes from  *)
(* its text when the text is not empty.  The site_audits record of the run *)
(* is carried by its status ("none" before it is created) and by the       *)
(* scores save_audit_results has written into it.                          *)

\* ContentAnalyzer._empty_result as RiskEngine reads it: risk_score 1.0,
\* word_count 0 and an "error" key
content_empty_result == [risk_score |-> <<100>>, word_count |-> <<0>>, error |-> TRUE]

\* ContentAnalyzer.analyze: the empty result for a page without text, else the
\* result of the text analysis (itself the empty result when that raised)
content_analyze(page) ==
    IF page.crawl.text_length = 0 THEN content_empty_result ELSE page.content

\* CrawlResult(url, error, crawl_status, crawl_method): every list empty
EmptyCrawl ==
    [ ad_elements    |-> <<>>, stacked_ads    |-> 0, ad_requests    |-> 0,
      scripts        |-> <<>>, video_elements |-> <<>>,
      total_elements |-> 0, text_length    |-> 0, viewportHeight |-> <<1080>> ]

\* pages crawled with a 1920x1080 viewport that made no ad request: no ad, or
\* eight ads of one shape with or without one stacked pair; with or without
\* aggressive ad scripts and video players
AuditCrawls ==
    { [ ad_elements    |-> a,
        stacked_ads    |-> st,
        ad_requests    |-> 0,
        scripts        |-> sc,
        video_elements |-> v,
        total_elements |-> 10,
        text_length    |-> 10000,
        viewportHeight |-> <<1080>> ] :
        a  \in {<<>>, Repeat(Rect, 8), Repeat(Banner, 8)},
        st \in {0, 1},
        sc \in {<<>>, <<FALSE, TRUE, TRUE, TRUE>>},
        v  \in {<<>>, Repeat(LoudVideo, 6)} }

\* the results of ContentAnalyzer on a page with text
AuditContents ==
    [ risk_score : {<<10>>, <<100>>}, word_count : {<<1>>, <<250>>, <<1000>>},
      error : {FALSE} ]
    \cup {content_empty_result}

\* the crawl results of the primary page: a stacked pair needs two ads; a
\* blocked or failed crawl carries no page data
AuditPages ==
    { [crawl_status |-> "SUCCESS", crawl |-> c, content |-> ct] :
        c \in { x \in AuditCrawls : x.stacked_ads > 0 => x.ad_elements # <<>> },
        ct \in AuditContents }
    \cup { [crawl_status |-> s, crawl |-> EmptyCrawl, content |-> content_empty_result] :
             s \in {"BLOCKED", "FAILED"} }

\* TechnicalChecker.check: health_score 90, 100, or 0 when the check failed
AuditTechnical == [ health_score : {<<0>>, <<90>>, <<100>>} ]

\* get_publisher_gam_data returns a list: empty, clean traffic, or CTR 6% at
\* eCPM 0.05
AuditGam ==
    { [none |-> FALSE, rows |-> r] :
        r \in { <<>>,
                << [impressions |-> 1000, clicks |-> 0,  revenue |-> 2000] >>,
                << [impressions |-> 1000, clicks |-> 60, revenue |-> 50] >> } }

\* what calculate_score reads from ad_result: risk_score and ad_count
ad_analysis_of(ad_result) ==
    [ risk_score |-> <<ad_result.risk_score>>, ad_count |-> <<ad_result.ad_count>> ]

\* tasks.py:302-308: calculate_score is called without crawl_status, which
\* then takes its default "SUCCESS"
audit_calculate_score(content_result, ad_result, technical_result, gam_data) ==
    calculate_score(content_result, ad_analysis_of(ad_result), technical_result,
                    "clean", gam_data, "SUCCESS")

\* the run before its first statement
NewAudit ==
    [ pc |-> "create", record |-> "none", saved |-> <<>>, page |-> <<>>,
      content_result |-> <<>>, ad_result |-> <<>>, technical_result |-> <<>>,
      gam_data |-> <<>>, risk_result |-> <<>> ]

\* get_publisher and create_site_audit: the record is inserted with status
\* pending, or ValueError is raised before the try block and no record exists
CreateSiteAudit ==
    /\ audit # Idle
    /\ audit.pc = "create"
    /\ \/ audit' = [audit EXCEPT !.pc = "crawl", !.record = "pending"]
       \/ audit' = [audit EXCEPT !.pc = "raised"]
    /\ UNCHANGED <<re_call, ni, ni_call, th, ad_call, hm_call, vc_call, rl_call,
                   st_call, jq>>

\* step 1: crawl_result = crawl_results[0]
CrawlSite ==
    /\ audit # Idle
    /\ audit.pc = "crawl"
    /\ \E p \in AuditPages : audit' = [audit EXCEPT !.pc = "analyze", !.page = <<p>>]
    /\ UNCHANGED <<re_call, ni, ni_call, th, ad_call, hm_call, vc_call, rl_call,
                   st_call, jq>>

\* steps 2 and 3: the network analysis and the analyzers on crawl_result; the
\* page made no ad request, so ad_result["ad_request_count"] stays 0
RunAnalyzers ==
    /\ audit # Idle
    /\ audit.pc = "analyze"
    /\ \E t \in AuditTechnical :
         audit' = [audit EXCEPT
                     !.pc = "score",
                     !.content_result = <<content_analyze(audit.page[1])>>,
                     !.ad_result = <<ad_analyze(audit.page[1].crawl)>>,
                     !.technical_result = <<t>>]
    /\ UNCHANGED <<re_call, ni, ni_call, th, ad_call, hm_call, vc_call, rl_call,
                   st_call, jq>>

\* step 4: the GAM data is fetched and the risk score calculated
CalculateRisk ==
    /\ audit # Idle
    /\ audit.pc = "score"
    /\ \E g \in AuditGam :
         audit' = [audit EXCEPT
                     !.pc = "save",
                     !.gam_data = <<g>>,
                     !.risk_result =
                        <<audit_calculate_score(audit.content_result[1],
                                                audit.ad_result[1],
                                                audit.technical_result[1], g)>>]
    /\ UNCHANGED <<re_call, ni, ni_call, th, ad_call, hm_call, vc_call, rl_call,
                   st_call, jq>>

\* step 6: save_audit_results is update_site_audit with status completed and
\* the scores.  update_site_audit catches the exception of a failed update and
\* returns False, and _run_audit_async does not read what it returns.
SaveAuditResults ==
    /\ audit # Idle
    /\ audit.pc = "save"
    /\ \/ audit' = [audit EXCEPT
                      !.pc = "finish",
                      !.record = "completed",
                      !.saved = <<[ risk_score      |-> audit.risk_result[1].risk_score,
                                    mfa_probability |-> audit.risk_result[1].mfa_probability,
                                    risk_level      |-> audit.risk_result[1].risk_level ]>>]
       \/ audit' = [audit EXCEPT !.pc = "finish"]
    /\ UNCHANGED <<re_call, ni, ni_call, th, ad_call, hm_call, vc_call, rl_call,
                   st_call, jq>>

\* the return statement: the result has status "completed"
ReturnCompleted ==
    /\ audit # Idle
    /\ audit.pc = "finish"
    /\ audit' = [audit EXCEPT !.pc = "returned"]
    /\ UNCHANGED <<re_call, ni, ni_call, th, ad_call, hm_call, vc_call, rl_call,
                   st_call, jq>>

\* a statement of the try block raises (the crawler, the trend analysis, the
\* LLM report, the alert service): control goes to the except clause
RaiseInTry ==
    /\ audit # Idle
    /\ audit.pc \in {"crawl", "analyze", "score", "save", "finish"}
    /\ audit' = [audit EXCEPT !.pc = "except"]
    /\ UNCHANGED <<re_call, ni, ni_call, th, ad_call, hm_call, vc_call, rl_call,
                   st_call, jq>>

\* the except clause: update_site_audit with status failed, which again
\* returns False when the update fails, and then `raise`
MarkFailed ==
    /\ audit # Idle
    /\ audit.pc = "except"
    /\ \/ audit' = [audit EXCEPT !.pc = "raised", !.record = "failed"]
       \/ audit' = [audit EXCEPT !.pc = "raised"]
    /\ UNCHANGED <<re_call, ni, ni_call, th, ad_call, hm_call, vc_call, rl_call,
                   st_call, jq>>

InitAudit ==
    /\ audit = NewAudit
    /\ re_call = Idle
    /\ ni = Idle
    /\ ni_call = Idle
    /\ th = Idle
    /\ ad_call = Idle
    /\ hm_call = Idle
    /\ vc_call = Idle
    /\ rl_call = Idle
    /\ st_call = Idle
    /\ jq = Idle

NextAudit ==
    \/ CreateSiteAudit
    \/ CrawlSite
    \/ RunAnalyzers
    \/ CalculateRisk
    \/ SaveAuditResults
    \/ ReturnCompleted
    \/ RaiseInTry
    \/ MarkFailed

\* one run of _run_audit_async on every page, with every database outcome
SpecAudit == InitAudit /\ [][NextAudit]_vars

-----------------------------------------------------------------------------
(* The job queue: poll_queue and recover_stuck_jobs                        *)
(*                                                                         *)
(* audit_job_queue is one table in the database; poll_queue and            *)
(* recover_stuck_jobs are Celery tasks that run in worker processes of     *)
(* their own, so their database requests interleave request by request.    *)
(* A job is a number (its id, also its place in queued_at order).  Of      *)
(* started_at the model keeps whether it is older than the 30 minutes of   *)
(* the recovery cutoff.  Besides the table and the position of every run,  *)
(* jq records what each run did to each job.                               *)

\* poll_queue runs that overlap
MaxRuns == 2
Runs == 1..MaxRuns

\* jobs in the queue
MaxJobs == 2
Jobs == 1..MaxJobs

\* recover_stuck_jobs runs, one after the other
MaxRecoveries == 1

\* the ids of a set of jobs in queued_at order
RECURSIVE JobList(_)
JobList(S) ==
    IF S = {} THEN <<>>
    ELSE LET first == CHOOSE x \in S : \A y \in S : x <= y
         IN  <<first>> \o JobList(S \ {first})

\* get_pending_jobs(limit): select * where status = pending order by queued_at
get_pending_jobs(status, limit) ==
    LET pending == JobList({ j \in Jobs : status[j] = "pending" })
    IN  SubSeq(pending, 1, Min(limit, Len(pending)))

\* the row filter of claim_job's update without the status condition
claim_filter_mut(status, job_id) == { j \in Jobs : j = job_id }

\* the rows claim_job's update matches: .eq("id", job_id).eq("status", "pending")
claim_filter(status, job_id) == { j \in Jobs : j = job_id /\ status[j] = "pending" }

\* the rows recover_stuck_jobs selects: status processing, started_at < cutoff
stuck_jobs(status, old) == JobList({ j \in Jobs : status[j] = "processing" /\ old[j] })

NoRuns == [j \in Jobs |-> {}]

\* every job pending, no task running yet
NewQueue ==
    [ status     |-> [j \in Jobs |-> "pending"],
      old        |-> [j \in Jobs |-> FALSE],
      run        |-> [r \in Runs |-> [pc |-> "start", jobs |-> <<>>, i |-> 1]],
      rec        |-> [pc |-> "start", stuck_ids |-> <<>>, i |-> 1, runs |-> 0],
      claimed    |-> NoRuns,
      refused    |-> NoRuns,
      dispatched |-> NoRuns,
      completed  |-> NoRuns ]

\* the run moves on to the next job of its list, or ends after the last
next_job(run) ==
    IF run.i < Len(run.jobs) THEN [run EXCEPT !.pc = "claim", !.i = @ + 1]
    ELSE [run EXCEPT !.pc = "done"]

\* jobs = await db.get_pending_jobs(limit=5); an exception gives []
GetPendingJobs(r) ==
    /\ jq # Idle
    /\ jq.run[r].pc = "start"
    /\ \E jobs \in {get_pending_jobs(jq.status, 5), <<>>} :
         jq' = [jq EXCEPT !.run[r] = [pc   |-> IF jobs = <<>> THEN "done" ELSE "claim",
                                      jobs |-> jobs, i |-> 1]]
    /\ UNCHANGED <<re_call, ni, ni_call, th, ad_call, hm_call, vc_call, rl_call,
                   st_call, audit>>

\* if not await db.claim_job(job_id): continue.  The update sets status
\* processing and started_at now on the rows it matches, and claim_job returns
\* whether it matched one.
ClaimJob(r) ==
    /\ jq # Idle
    /\ jq.run[r].pc = "claim"
    /\ LET job_id  == jq.run[r].jobs[jq.run[r].i]
           matched == claim_filter(jq.status, job_id)
       IN  IF matched # {}
           THEN jq' = [jq EXCEPT !.status[job_id] = "processing",
                                 !.old[job_id] = FALSE,
                                 !.claimed[job_id] = @ \cup {r},
                                 !.run[r].pc = "dispatch"]
           ELSE jq' = [jq EXCEPT !.refused[job_id] = @ \cup {r},
                                 !.run[r] = next_job(@)]
    /\ UNCHANGED <<re_call, ni, ni_call, th, ad_call, hm_call, vc_call, rl_call,
                   st_call, audit>>

\* claim_job's request raises: claim_job returns False, whether the database
\* had applied the update before the failure or not
ClaimJobFails(r) ==
    /\ jq # Idle
    /\ jq.run[r].pc = "claim"
    /\ LET job_id  == jq.run[r].jobs[jq.run[r].i]
           matched == claim_filter(jq.status, job_id)
       IN  \E applied \in BOOLEAN :
             jq' = [jq EXCEPT
                      !.status[job_id] = IF applied /\ matched # {}
                                         THEN "processing" ELSE @,
                      !.old[job_id] = IF applied /\ matched # {} THEN FALSE ELSE @,
                      !.refused[job_id] = @ \cup {r},
                      !.run[r] = next_job(@)]
    /\ UNCHANGED <<re_call, ni, ni_call, th, ad_call, hm_call, vc_call, rl_call,
                   st_call, audit>>

\* the loop over the job's sites: run_site_audit.delay for each of them
DispatchSites(r) ==
    /\ jq # Idle
    /\ jq.run[r].pc = "dispatch"
    /\ LET job_id == jq.run[r].jobs[jq.run[r].i]
       IN  jq' = [jq EXCEPT !.dispatched[job_id] = @ \cup {r},
                            !.run[r].pc = "complete"]
    /\ UNCHANGED <<re_call, ni, ni_call, th, ad_call, hm_call, vc_call, rl_call,
                   st_call, audit>>

\* await db.complete_job(job_id): the update sets status completed on the row
\* with this id whatever its status is; when the request raises, complete_job
\* returns False and the run goes on
CompleteJob(r) ==
    /\ jq # Idle
    /\ jq.run[r].pc = "complete"
    /\ LET job_id == jq.run[r].jobs[jq.run[r].i]
       IN  \E applied \in BOOLEAN :
             jq' = [jq EXCEPT
                      !.status[job_id] = IF applied THEN "completed" ELSE @,
                      !.completed[job_id] = @ \cup {r},
                      !.run[r] = next_job(@)]
    /\ UNCHANGED <<re_call, ni, ni_call, th, ad_call, hm_call, vc_call, rl_call,
                   st_call, audit>>

\* thirty minutes pass: the started_at of every job now processing is older
\* than the cutoff of a later recover_stuck_jobs
TimePasses ==
    /\ jq # Idle
    /\ \E j \in Jobs : jq.status[j] = "processing" /\ ~jq.old[j]
    /\ jq' = [jq EXCEPT !.old = [j \in Jobs |-> jq.status[j] = "processing"]]
    /\ UNCHANGED <<re_call, ni, ni_call, th, ad_call, hm_call, vc_call, rl_call,
                   st_call, audit>>

\* recover_stuck_jobs, the select: the ids of the stuck jobs; return 0 when
\* there is none
RecoverSelect ==
    /\ jq # Idle
    /\ jq.rec.pc = "start"
    /\ jq.rec.runs < MaxRecoveries
    /\ LET stuck_ids == stuck_jobs(jq.status, jq.old)
       IN  jq' = [jq EXCEPT !.rec = [pc        |-> IF stuck_ids = <<>> THEN "start"
                                                   ELSE "reset",
                                     stuck_ids |-> stuck_ids,
                                     i         |-> 1,
                                     runs      |-> @.runs + 1]]
    /\ UNCHANGED <<re_call, ni, ni_call, th, ad_call, hm_call, vc_call, rl_call,
                   st_call, audit>>

\* recover_stuck_jobs, one update of the loop: status pending and started_at
\* None on the row with this id, whatever its status is now
RecoverReset ==
    /\ jq # Idle
    /\ jq.rec.pc = "reset"
    /\ LET job_id == jq.rec.stuck_ids[jq.rec.i]
       IN  jq' = [jq EXCEPT
                    !.status[job_id] = "pending",
                    !.old[job_id] = FALSE,
                    !.rec = IF @.i < Len(@.stuck_ids) THEN [@ EXCEPT !.i = @ + 1]
                            ELSE [@ EXCEPT !.pc = "start"]]
    /\ UNCHANGED <<re_call, ni, ni_call, th, ad_call, hm_call, vc_call, rl_call,
                   st_call, audit>>

InitQueue ==
    /\ jq = NewQueue
    /\ re_call = Idle
    /\ ni = Idle
    /\ ni_call = Idle
    /\ th = Idle
    /\ ad_call = Idle
    /\ hm_call = Idle
    /\ vc_call = Idle
    /\ rl_call = Idle
    /\ st_call = Idle
    /\ audit = Idle

PollQueue ==
    \E r \in Runs : \/ GetPendingJobs(r)
                    \/ ClaimJob(r)
                    \/ ClaimJobFails(r)
                    \/ DispatchSites(r)
                    \/ CompleteJob(r)

NextPolls == PollQueue

\* poll_queue runs that overlap, no other task touching the queue
SpecPolls == InitQueue /\ [][NextPolls]_vars

NextQueue == PollQueue \/ TimePasses \/ RecoverSelect \/ RecoverReset

\* poll_queue runs and recover_stuck_jobs runs, interleaved
SpecQueue == InitQueue /\ [][NextQueue]_vars

-----------------------------------------------------------------------------
(* Claims about RiskEngine (stated under SpecRisk)                         *)

ReDone == re_call.called
ReOut == re_call.result
ReGamPresent == ~re_call.gam.none /\ re_call.gam.rows # <<>>

\* the claims' own reading of the aggregation, written out over four components
FullDenominator(c) ==
    c.content.weight * c.content.confidence + c.ad.weight * c.ad.confidence
      + c.traffic.weight * c.traffic.confidence
      + c.technical.weight * c.technical.confidence

FullNumerator(c) ==
    c.content.score * c.content.weight * c.content.confidence
      + c.ad.score * c.ad.weight * c.ad.confidence
      + c.traffic.score * c.traffic.weight * c.traffic.confidence
      + c.technical.score * c.technical.weight * c.technical.confidence

\* C1: calculate_score selects its mode from crawl_status and the GAM data only:
\* BLOCKED with non-empty GAM data gives scoring_mode gam_only; BLOCKED with absent
\* or empty GAM data gives scoring_mode none and risk_level inconclusive with
\* mfa_probability exactly 0 and confidence exactly 0; SUCCESS gives scoring_mode
\* full; whatever the content, ad, technical and policy arguments are.
C1_ModeSelection ==
    ReDone =>
      /\ (re_call.crawl_status = "BLOCKED" /\ ReGamPresent)
            => ReOut.scoring_mode = "gam_only"
      /\ (re_call.crawl_status = "BLOCKED" /\ ~ReGamPresent)
            => /\ ReOut.scoring_mode = "none"
               /\ ReOut.risk_level = "inconclusive"
               /\ ReOut.mfa_probability = 0 /\ ReOut.prob[1] = 0
               /\ ReOut.confidence = 0 /\ ReOut.conf[1] = 0
      /\ re_call.crawl_status = "SUCCESS" => ReOut.scoring_mode = "full"

\* C1's case: a blocked crawl with an empty GAM list and a content analysis that
\* carries a high risk score has been scored
C1_Witness ==
    /\ ReDone
    /\ re_call.crawl_status = "BLOCKED"
    /\ ~re_call.gam.none /\ re_call.gam.rows = <<>>
    /\ re_call.content.risk_score = <<100>>
    /\ ReOut.scoring_mode = "none"

\* C2: whenever calculate_score is called with neither crawl data nor GAM data
\* (crawl_status BLOCKED or FAILED, GAM data absent or empty) the result is the
\* inconclusive outcome (risk_level inconclusive, scoring_mode none), never a
\* low, medium or high level.
C2_NoDataIsInconclusive ==
    (ReDone /\ re_call.crawl_status \in {"BLOCKED", "FAILED"} /\ ~ReGamPresent)
      => /\ ReOut.risk_level = "inconclusive"
         /\ ReOut.scoring_mode = "none"

\* C3 as stated: in full mode the result has exactly the components content
\* (weight 0.25, confidence min(word_count/500, 1)), ad (weight 0.35, confidence 1.0
\* if ad_count > 0 else 0.7), traffic (weight 0.25, confidence 1.0 if GAM data is
\* present else 0.3) and technical (weight 0.15); mfa_probability is
\* sum(score*weight*confidence) / sum(weight*confidence) and confidence is
\* sum(confidence*weight), times 0.8 when crawl_status is FALLBACK.
C3_AsStated ==
    (ReDone /\ ReOut.scoring_mode = "full") =>
      LET c == ReOut.components
      IN  /\ DOMAIN c = {"content", "ad", "traffic", "technical"}
          /\ c.content.weight = 25
          /\ c.content.confidence = Min(Get(re_call.content.word_count, 0), 500)
          /\ c.ad.weight = 35
          /\ c.ad.confidence = IF Get(re_call.ad.ad_count, 0) > 0 THEN 500 ELSE 350
          /\ c.traffic.weight = 25
          /\ c.traffic.confidence = IF ReGamPresent THEN 500 ELSE 150
          /\ c.technical.weight = 15
          /\ REq(ReOut.prob, <<FullNumerator(c), 100 * FullDenominator(c)>>)
          /\ REq(ReOut.conf, IF re_call.crawl_status = "FALLBACK"
                             THEN <<8 * FullDenominator(c), 500000>>
                             ELSE <<FullDenominator(c), 50000>>)

\* C3 as amended: as C3, except that the content confidence is 0.2 when the
\* content analysis has an "error" key and min(word_count/500, 1) otherwise; the
\* reported mfa_probability and confidence are these values rounded to 4
\* decimals; FALLBACK changes neither the probability nor the level that the
\* same arguments get with SUCCESS.
C3_FullFormula ==
    (ReDone /\ ReOut.scoring_mode = "full") =>
      LET c == ReOut.components
          asSuccess == calculate_score(re_call.content, re_call.ad, re_call.technical,
                                       re_call.policy, re_call.gam, "SUCCESS")
      IN  /\ DOMAIN c = {"content", "ad", "traffic", "technical"}
          /\ c.content.weight = 25
          /\ c.content.confidence = IF re_call.content.error THEN 100
                                    ELSE Min(Get(re_call.content.word_count, 0), 500)
          /\ c.ad.weight = 35
          /\ c.ad.confidence = IF Get(re_call.ad.ad_count, 0) > 0 THEN 500 ELSE 350
          /\ c.traffic.weight = 25
          /\ c.traffic.confidence = IF ReGamPresent THEN 500 ELSE 150
          /\ c.technical.weight = 15
          /\ FullDenominator(c) > 0
          /\ REq(ReOut.prob, <<FullNumerator(c), 100 * FullDenominator(c)>>)
          /\ ReOut.mfa_probability
               = Round(FullNumerator(c), 100 * FullDenominator(c), 4)
          /\ REq(ReOut.conf, IF re_call.crawl_status = "FALLBACK"
                             THEN <<8 * FullDenominator(c), 500000>>
                             ELSE <<FullDenominator(c), 50000>>)
          /\ re_call.crawl_status = "FALLBACK" =>
                /\ REq(ReOut.prob, asSuccess.prob)
                /\ ReOut.risk_level = asSuccess.risk_level
                /\ REq(ReOut.conf, <<8 * asSuccess.conf[1], 10 * asSuccess.conf[2]>>)

\* C3's case: a FALLBACK crawl scored in full mode from a content analysis that
\* has an "error" key, 1000 words and GAM data
C3_Witness ==
    /\ ReDone
    /\ ReOut.scoring_mode = "full"
    /\ re_call.crawl_status = "FALLBACK"
    /\ re_call.content.error
    /\ re_call.content.word_count = <<1000>>
    /\ ReGamPresent
    /\ ReOut.components.content.confidence = 100

\* C4: in every full-mode result each component's weight and confidence are
\* non-negative, sum(weight*confidence) is strictly positive (the 0.5 branch of
\* the division is never taken), and a content component of confidence 0
\* (word_count 0) leaves mfa_probability the same whatever its score is.
C4_ZeroConfidenceContributesNothing ==
    (ReDone /\ ReOut.scoring_mode = "full") =>
      LET c == ReOut.components
      IN  /\ \A n \in DOMAIN c : c[n].weight >= 0 /\ c[n].confidence >= 0
          /\ FullDenominator(c) > 0
          /\ c.content.confidence = 0 =>
               \A s \in {<<>>, <<0>>, <<10>>, <<50>>, <<100>>} :
                  LET other == calculate_score([re_call.content EXCEPT !.risk_score = s],
                                               re_call.ad, re_call.technical,
                                               re_call.policy, re_call.gam,
                                               re_call.crawl_status)
                  IN  /\ REq(other.prob, ReOut.prob)
                      /\ other.mfa_probability = ReOut.mfa_probability
                      /\ other.risk_level = ReOut.risk_level

\* C4's case: a page of zero words whose content analysis reports the highest
\* risk has been scored in full mode
C4_Witness ==
    /\ ReDone
    /\ ReOut.scoring_mode = "full"
    /\ re_call.content.word_count = <<0>>
    /\ ~re_call.content.error
    /\ re_call.content.risk_score = <<100>>
    /\ ReOut.components.content.confidence = 0

\* a component that takes part in the weighted average with the score 0.5
EntersAsHalf(c) == c.score = 50 /\ c.weight * c.confidence > 0

\* C5: RiskEngine never averages in a default score of 0.5 for a component whose
\* data is missing: a content or ad analysis without a risk_score, absent GAM
\* data in full mode, a missing health_score, and GAM data with zero total
\* impressions (full or gam_only mode) do not enter the result with score 0.5.
C5_NoDefaultHalf ==
    ReDone =>
      LET c == ReOut.components
          zeroImpressions == ReGamPresent /\ SumField(re_call.gam.rows, "impressions") = 0
      IN  /\ ReOut.scoring_mode = "full" =>
                /\ re_call.content.risk_score = <<>> => ~EntersAsHalf(c.content)
                /\ re_call.ad.risk_score = <<>> => ~EntersAsHalf(c.ad)
                /\ ~ReGamPresent => ~EntersAsHalf(c.traffic)
                /\ re_call.technical.health_score = <<>> => ~EntersAsHalf(c.technical)
                /\ zeroImpressions => ~EntersAsHalf(c.traffic)
          /\ ReOut.scoring_mode = "gam_only" =>
                (zeroImpressions => ~EntersAsHalf(c.gam))

-----------------------------------------------------------------------------
(* Claims about NetworkInterceptor                                         *)

NiDone == ni_call # Idle /\ ni_call.called
NiOut == ni_call.result

UrlOf(req) == Get(req.url, EmptyUrl)

\* the places in a request list of the ad requests of netloc d
AdPlaces(reqs, d) ==
    { i \in 1..Len(reqs) : UrlOf(reqs[i]).ad /\ UrlOf(reqs[i]).domain = d }

TimeOf(reqs, i) == Get(reqs[i].timing, 0)

\* the smallest distance between two of the timestamps: the smallest consecutive
\* interval of the sorted timestamps
SmallestGap(reqs, d) ==
    LET real == { Abs(TimeOf(reqs, ij[1]) - TimeOf(reqs, ij[2])) :
                    ij \in { x \in AdPlaces(reqs, d) \X AdPlaces(reqs, d) : x[1] # x[2] } }
    IN  CHOOSE g \in real : \A h \in real : g <= h

\* latest minus earliest timestamp: the sum of the consecutive intervals
TimeSpan(reqs, d) ==
    LET ts == { TimeOf(reqs, i) : i \in AdPlaces(reqs, d) }
    IN  (CHOOSE a \in ts : \A b \in ts : a >= b) - (CHOOSE a \in ts : \A b \in ts : a <= b)

\* the claimed rule: at least two ad requests, and min < 30 s or average < 60 s
ShouldFlag(reqs, d) ==
    /\ Cardinality(AdPlaces(reqs, d)) >= 2
    /\ \/ SmallestGap(reqs, d) < 30000
       \/ TimeSpan(reqs, d) < 60000 * (Cardinality(AdPlaces(reqs, d)) - 1)

\* the flags the claimed rule gives a request list: netloc and severity
ShouldFlagSet(reqs) ==
    { [ domain   |-> d,
        severity |-> IF SmallestGap(reqs, d) < 15000 THEN "HIGH" ELSE "MEDIUM" ] :
        d \in { x \in { UrlOf(reqs[i]).domain : i \in 1..Len(reqs) } : ShouldFlag(reqs, x) } }

\* the flags in a list of suspicious_refreshes entries: netloc and severity
FlagsOf(entries) ==
    { [domain |-> entries[i].domain, severity |-> entries[i].severity] :
        i \in 1..Len(entries) }

\* a request list with the requests at places i and i + 1 exchanged
Swap(reqs, i) ==
    [k \in 1..Len(reqs) |-> IF k = i THEN reqs[i + 1] ELSE IF k = i + 1 THEN reqs[i]
                            ELSE reqs[k]]

C7_PureFunctionOfArgument ==
    NiDone => NiOut = analyze_requests(NewInterceptor, ni_call.requests).result

\* C8: two analyze_requests calls whose steps interleave on one shared instance
\* each return the result their own request list determines: ad-request count,
\* refresh patterns and risk score never include requests of the other call.
C8_InterleavedCallsIndependent ==
    \A t \in Threads :
       th[t].pc = "done" =>
          LET alone == analyze_requests(NewInterceptor, th[t].requests).result
          IN  /\ th[t].result.ad_requests_count = alone.ad_requests_count
              /\ th[t].result.refresh_patterns = alone.refresh_patterns
              /\ th[t].result.network_risk_score = alone.network_risk_score

-----------------------------------------------------------------------------
(* Claims about the scales of the scores (stated under SpecAnalyzers)      *)

AdDone == ad_call # Idle /\ ad_call.called
AdOut == ad_call.result
HmDone == hm_call # Idle /\ hm_call.called /\ ~hm_call.result.raised
HmOut == hm_call.result

\* C9: for every input, rectangles with negative or oversized dimensions and
\* long lists included, AdAnalyzer's risk_score and layout_risk are in [0, 1],
\* AdHeatmapGenerator's mfa_score is in [0, 100] and NetworkInterceptor's
\* network_risk_score is in [0, 100].
C9_ScoresWithinScale ==
    /\ AdDone => /\ AdOut.risk_score >= 0 /\ AdOut.risk_score <= 100
                 /\ AdOut.layout_risk >= 0 /\ AdOut.layout_risk <= 100
    /\ HmDone => HmOut.mfa_score >= 0 /\ HmOut.mfa_score <= 100
    /\ NiDone => NiOut.network_risk_score >= 0 /\ NiOut.network_risk_score <= 100

\* C10: for every input, ads larger than the viewport, overlapping ads and
\* rectangles with negative dimensions included, AdAnalyzer's ad_density and the
\* ad_density of every scroll band of AdHeatmapGenerator are in [0, 1].
C10_DensitiesWithinUnit ==
    /\ AdDone => AdOut.density.ad_density >= 0 /\ AdOut.density.ad_density <= 1000
    /\ HmDone => \A i \in 1..Len(HmOut.levels) :
                    /\ HmOut.levels[i].ad_density >= 0
                    /\ HmOut.levels[i].ad_density <= 10000

-----------------------------------------------------------------------------
(* Claims about empty ad lists and totality (stated under SpecAnalyzers)   *)

VcDone == vc_call # Idle /\ vc_call.called
VcOut == vc_call.result

\* C11: for every crawl result whose ad-element list is empty, whatever its
\* scripts, video elements, ad requests and stacked ads, AdAnalyzer.analyze
\* returns ad_density 0, risk_score 0, layout_risk 0 and risk_level low, and
\* ViewabilityChecker.analyze on an empty ad list returns mrc_compliant true with
\* the three categories empty.
C11_EmptyAdListIsZeroRisk ==
    /\ (AdDone /\ ad_call.crawl.ad_elements = <<>>) =>
          /\ AdOut.density.ad_density = 0
          /\ AdOut.risk_score = 0
          /\ AdOut.layout_risk = 0
          /\ AdOut.risk_level = "low"
    /\ (VcDone /\ vc_call.ad_elements = <<>>) =>
          /\ VcOut.summary.mrc_compliant
          /\ VcOut.categorization.viewable = <<>>
          /\ VcOut.categorization.partially_viewable = <<>>
          /\ VcOut.categorization.not_viewable = <<>>

\* C12: AdHeatmapGenerator.analyze, ViewabilityChecker.analyze and
\* NetworkInterceptor.analyze_requests return a result and never raise, for
\* every input: a viewport height or width of 0, a page height of 0, zero-area or
\* negative-dimension rectangles, ads or requests with missing fields.
C12_AnalysesNeverRaise ==
    /\ (hm_call # Idle /\ hm_call.called) =>
          /\ ~hm_call.result.raised
          /\ "mfa_score" \in DOMAIN hm_call.result
    /\ VcDone => "summary" \in DOMAIN VcOut
    /\ NiDone => "network_risk_score" \in DOMAIN NiOut

-----------------------------------------------------------------------------
(* Claims about the tiers of the scores                                    *)

\* what an ad count of n adds to _calculate_risk_score (thousandths) with the
\* density and the suspicious patterns held fixed
CountContribution(n, density, patterns) ==
    calculate_risk_score(n, density, patterns, 0)
    - calculate_risk_score(0, density, patterns, 0)

\* C13: with density and suspicious patterns held fixed, the ad count adds 0.1
\* to AdAnalyzer's risk score at 3 ads, 0.2 at 7 ads and 0.3 at 11 ads.
C13_CountTiers ==
    AdDone =>
      LET density  == AdOut.density.ad_density
          patterns == AdOut.suspicious_patterns
      IN  /\ CountContribution(3, density, patterns) = 100
          /\ CountContribution(7, density, patterns) = 200
          /\ CountContribution(11, density, patterns) = 300

\* the points the claim gives a detected pattern
ClaimedPoints(pattern) ==
    CASE pattern.type = "AUTO_REFRESH_ADS" -> IF pattern.severity = "HIGH" THEN 40 ELSE 25
      [] pattern.type \in {"EXCESSIVE_AD_CALLS", "HIGH_AD_CALLS"} ->
            IF pattern.severity = "HIGH" THEN 30 ELSE 15
      [] pattern.type = "MULTIPLE_PREBID_AUCTIONS" -> 10
      [] pattern.type = "EXCESSIVE_VIDEO_ADS" -> 15
      [] pattern.type = "FRAGMENTED_AD_STACK" -> 5
      [] OTHER -> 0

RECURSIVE SumClaimedPoints(_)
SumClaimedPoints(patterns) ==
    IF patterns = <<>> THEN 0
    ELSE ClaimedPoints(Head(patterns)) + SumClaimedPoints(Tail(patterns))

\* the number of ad requests in a request list
AdRequestCount(reqs) == Cardinality({ i \in 1..Len(reqs) : UrlOf(reqs[i]).ad })

\* C14: network_risk_score = min(100, base + additions); base is 70, 40 or 15
\* for more than 100, 50 or 25 ad requests; every detected suspicious pattern
\* adds its points: auto-refresh 40 (HIGH) or 25 (MEDIUM), excessive ad calls 30
\* (HIGH, more than 100 ad requests) or 15 (MEDIUM, more than 50), prebid 10,
\* video 15, fragmented stack 5.
C14_NetworkRiskScore ==
    NiDone =>
      LET n    == AdRequestCount(ni_call.requests)
          base == IF n > 100 THEN 70 ELSE IF n > 50 THEN 40 ELSE IF n > 25 THEN 15 ELSE 0
      IN  NiOut.network_risk_score
            = Min(100, base + SumClaimedPoints(NiOut.suspicious_patterns))

RlDone == rl_call # Idle /\ rl_call.called
RlOut == rl_call.result[1]

\* C15: for any score s, RiskEngine, AdAnalyzer, AdHeatmapGenerator (on s*100)
\* and NetworkInterceptor (on s*100) return the same level: low below 0.3,
\* medium between 0.3 and 0.6, high above 0.6.
C15_SameLevelEverywhere ==
    RlDone =>
      /\ RlOut.ad_analyzer = RlOut.risk_engine
      /\ RlOut.heatmap = RlOut.risk_engine
      /\ RlOut.network = RlOut.risk_engine
      /\ rl_call.score < 30 => RlOut.risk_engine = "low"
      /\ (rl_call.score > 30 /\ rl_call.score < 60) => RlOut.risk_engine = "medium"
      /\ rl_call.score > 60 => RlOut.risk_engine = "high"

-----------------------------------------------------------------------------
(* Claims about ViewabilityChecker (stated under SpecViewability)           *)

\* the viewport analyze uses, and the intersection ratio of the i-th ad of the call
VcViewport == Get(vc_call.viewport, [width |-> 1920, height |-> 1080])
VcRatio(i) == calculate_intersection_ratio(vc_call.ad_elements[i].boundingBox, VcViewport)

\* the ids of the entries of one category
IdsOf(entries) == { entries[i].id : i \in 1..Len(entries) }

\* C16: every ad is in exactly one of the three categories: viewable when its
\* intersection ratio is at least the threshold, partially viewable when the
\* ratio is strictly between 0 and the threshold, not viewable when the ratio is
\* 0; the three counts sum to total_ads; and for a non-empty ad list
\* mrc_compliant is true exactly when viewable_percentage >= 50.
C16_ThreeCategories ==
    (VcDone /\ vc_call.ad_elements # <<>>) =>
      LET cat       == VcOut.categorization
          threshold == vc_call.self.min_visibility_ratio
      IN  /\ \A i \in 1..Len(vc_call.ad_elements) :
                /\ (i \in IdsOf(cat.viewable)) = RLe(threshold, VcRatio(i))
                /\ (i \in IdsOf(cat.partially_viewable))
                      = (RLt(<<0, 1>>, VcRatio(i)) /\ RLt(VcRatio(i), threshold))
                /\ (i \in IdsOf(cat.not_viewable)) = REq(VcRatio(i), <<0, 1>>)
          /\ Len(cat.viewable) + Len(cat.partially_viewable) + Len(cat.not_viewable)
                = Len(vc_call.ad_elements)
          /\ VcOut.metrics.viewable_count + VcOut.metrics.partially_viewable_count
                + VcOut.metrics.not_viewable_count = VcOut.metrics.total_ads
          /\ VcOut.metrics.total_ads = Len(vc_call.ad_elements)
          /\ VcOut.summary.mrc_compliant = (VcOut.metrics.viewable_percentage >= 5000)

\* the rectangle of the i-th ad of the call
VcBox(i) == vc_call.ad_elements[i].boundingBox[1]

PositiveArea(b) == b.right > b.left /\ b.bottom > b.top

InsideViewport(b, v) ==
    b.top >= 0 /\ b.left >= 0 /\ b.bottom <= v.height /\ b.right <= v.width

DisjointFromViewport(b, v) ==
    b.bottom <= 0 \/ b.top >= v.height \/ b.right <= 0 \/ b.left >= v.width

\* the area of the part of a rectangle of positive area that lies in the viewport
AreaInViewport(b, v) ==
    Max(0, Min(b.right, v.width) - Max(b.left, 0))
    * Max(0, Min(b.bottom, v.height) - Max(b.top, 0))

\* the ratios analyze reports for the ad with the given id, in thousandths
ReportedRatios(id) ==
    LET entries == VcOut.categorization.viewable \o VcOut.categorization.partially_viewable
    IN  { entries[n].ratio : n \in { m \in 1..Len(entries) : entries[m].id = id } }

\* C17: the intersection ratio is 1 for a rectangle of positive area equal to or
\* inside the viewport, 0 for a rectangle disjoint from the viewport, 0 for a
\* zero-area or inverted rectangle, and otherwise intersection_area divided by
\* rectangle_area, a value in [0, 1]; analyze reports it rounded to
\* three decimals.
C17_IntersectionRatio ==
    VcDone =>
      \A i \in 1..Len(vc_call.ad_elements) :
         vc_call.ad_elements[i].boundingBox # <<>> =>
            LET b == VcBox(i)
                v == VcViewport
                r == VcRatio(i)
            IN  /\ RLe(<<0, 1>>, r) /\ RLe(r, <<1, 1>>)
                /\ (PositiveArea(b) /\ InsideViewport(b, v)) => REq(r, <<1, 1>>)
                /\ DisjointFromViewport(b, v) => REq(r, <<0, 1>>)
                /\ ~PositiveArea(b) => REq(r, <<0, 1>>)
                /\ (PositiveArea(b) /\ ~DisjointFromViewport(b, v)) =>
                      REq(r, <<AreaInViewport(b, v),
                               (b.right - b.left) * (b.bottom - b.top)>>)
                /\ \A e \in ReportedRatios(i) : e = Round(r[1], r[2], 3)

\* a finished call on a list with a rectangle inside the viewport, one partly
\* inside it and one inverted in both directions
C17_Witness ==
    /\ VcDone
    /\ \E i, j, k \in 1..Len(vc_call.ad_elements) :
          /\ vc_call.ad_elements[i].boundingBox # <<>>
          /\ vc_call.ad_elements[j].boundingBox # <<>>
          /\ vc_call.ad_elements[k].boundingBox # <<>>
          /\ REq(VcRatio(i), <<1, 1>>)
          /\ RLt(<<0, 1>>, VcRatio(j)) /\ RLt(VcRatio(j), <<1, 1>>)
          /\ VcBox(k).right < VcBox(k).left /\ VcBox(k).bottom < VcBox(k).top

-----------------------------------------------------------------------------
(* Claims about the stacking scan (stated under SpecStacking)              *)

StDone == st_call # Idle /\ st_call.called
StOut == st_call.result

\* the pixel columns and the pixel rows a rectangle covers
Columns(a) == a.x .. (a.x + a.width - 1)
Rows(a) == a.y .. (a.y + a.height - 1)

\* the number of pixels two rectangles share
SharedPixels(a, b) ==
    Cardinality(Columns(a) \cap Columns(b)) * Cardinality(Rows(a) \cap Rows(b))

\* max(overlap_area / area(a), overlap_area / area(b))
LargerFraction(a, b) ==
    Norm(<<SharedPixels(a, b), Min(a.width * a.height, b.width * b.height)>>)

\* the reported pairs of a scan as unordered pairs of ads with their fraction
ReportedPairs(ads, stacked) ==
    { [pair |-> {ads[stacked[n].adA + 1], ads[stacked[n].adB + 1]},
       overlapPct |-> stacked[n].overlapPct] : n \in 1..Len(stacked) }

\* the list with the ads at positions p and q exchanged
Exchange(ads, p, q) ==
    [k \in 1..Len(ads) |-> IF k = p THEN ads[q] ELSE IF k = q THEN ads[p] ELSE ads[k]]

\* C18: the stacking scan reports every unordered pair of detected ads exactly
\* once if and only if max(overlap_area/area(a), overlap_area/area(b)) > 0.5,
\* and not at all otherwise; the reported fraction is that maximum; and the
\* reported pairs and fractions are the same whichever order the ads have in
\* the ad list.
C18_StackingScan ==
    StDone =>
      LET ads == st_call.ads
      IN  /\ \A i, j \in 0..(Len(ads) - 1) :
                i < j =>
                   LET hits == { n \in 1..Len(StOut) :
                                   {StOut[n].adA, StOut[n].adB} = {i, j} }
                       f    == LargerFraction(ads[i + 1], ads[j + 1])
                   IN  /\ Cardinality(hits) = IF RLt(<<1, 2>>, f) THEN 1 ELSE 0
                       /\ \A n \in hits : /\ StOut[n].adA = i
                                          /\ StOut[n].adB = j
                                          /\ StOut[n].overlapPct = f
          /\ \A n \in 1..Len(StOut) : StOut[n].adA < StOut[n].adB
          /\ \A p, q \in 1..Len(ads) :
                ReportedPairs(Exchange(ads, p, q), stackedAds(Exchange(ads, p, q)))
                   = ReportedPairs(ads, StOut)

\* a finished scan of three ads of different sizes in which one pair is reported
\* for the fraction of its second ad only, one pair shares exactly half of each
\* ad and is not reported, and one pair is disjoint
C18_Witness ==
    /\ StDone
    /\ Len(st_call.ads) = 3
    /\ \E n \in 1..Len(StOut) :
          LET a == st_call.ads[StOut[n].adA + 1]
              b == st_call.ads[StOut[n].adB + 1]
          IN  /\ RLe(<<SharedPixels(a, b), a.width * a.height>>, <<1, 2>>)
              /\ RLt(<<1, 2>>, <<SharedPixels(a, b), b.width * b.height>>)
    /\ \E i, j \in 1..3 :
          /\ i < j
          /\ SharedPixels(st_call.ads[i], st_call.ads[j]) = 0
    /\ Len(StOut) < 3

-----------------------------------------------------------------------------
(* Claims about the heatmap (stated under SpecAnalyzers)                   *)

\* the bands of a finished call, and the ads of the call
HmLevels == HmOut.levels
HmAds == hm_call.ad_elements

\* the average of the reported band densities
HmAvgDensity == Norm(<<SumLevels(HmLevels, "ad_density"), 10000 * Len(HmLevels)>>)

\* the tier from the ratio of second-half to first-half band density: 25 when
\* the second-half average is more than 1.5 times the first-half average, 15
\* when it is more than 1.2 times, on pages of more than 3 bands
DensityRatioTier(levels) ==
    LET half        == Len(levels) \div 2
        first_half  == SubSeq(levels, 1, half)
        second_half == SubSeq(levels, half + 1, Len(levels))
        first_sum   == SumLevels(first_half, "ad_density")
        second_sum  == SumLevels(second_half, "ad_density")
    IN  IF Len(levels) > 3
        THEN IF 2 * second_sum * Len(first_half) > 3 * first_sum * Len(second_half) THEN 25
             ELSE IF 5 * second_sum * Len(first_half) > 6 * first_sum * Len(second_half)
                  THEN 15
             ELSE 0
        ELSE 0

AverageDensityTier(avg_density) ==
    IF RLt(<<4, 10>>, avg_density) THEN 30
    ELSE IF RLt(<<25, 100>>, avg_density) THEN 20
    ELSE IF RLt(<<15, 100>>, avg_density) THEN 10
    ELSE IF RLt(<<8, 100>>, avg_density) THEN 5 ELSE 0

AboveFoldTier(ads_above_fold) ==
    IF ads_above_fold > 4 THEN 20
    ELSE IF ads_above_fold > 2 THEN 12
    ELSE IF ads_above_fold > 1 THEN 5 ELSE 0

DeceptiveTier(deceptive_count) ==
    IF deceptive_count > 3 THEN 25
    ELSE IF deceptive_count > 1 THEN 15
    ELSE IF deceptive_count > 0 THEN 8 ELSE 0

\* C19: mfa_score is the sum, capped at 100, of an average-density tier (0-30),
\* an above-fold-ad tier (0-20), a tier (0-25) computed from the ratio of
\* second-half to first-half band density, and a deceptive-ad-count tier
\* (0-25); an ad belongs to a band exactly when ad_bottom > band_top and
\* ad_top < band_bottom.
C19_MfaScoreTiers ==
    (HmDone /\ HmAds # <<>>) =>
      /\ HmOut.mfa_score
            = Min(100, AverageDensityTier(HmAvgDensity)
                       + AboveFoldTier(HmOut.ads_above_fold)
                       + DensityRatioTier(HmLevels)
                       + DeceptiveTier(HmOut.deceptive_ad_count))
      /\ \A n \in 1..Len(HmLevels) :
            HmLevels[n].ad_count
               = Cardinality({ k \in 1..Len(HmAds) :
                                 /\ HmAds[k].y + HmAds[k].height > HmLevels[n].scroll_y
                                 /\ HmAds[k].y < HmLevels[n].scroll_y
                                                   + HmLevels[n].viewport_height })

\* the number of ads of the call in band n (bands count from 1)
BandCount(n) ==
    Cardinality({ k \in 1..Len(HmAds) :
                    /\ HmAds[k].y + HmAds[k].height > (n - 1) * hm_call.viewport_height
                    /\ HmAds[k].y < n * hm_call.viewport_height })

\* over the last 3 bands, each band's ad count is at least 80% of the ad count
\* of the band before it
LastBandsKeepUp ==
    \A n \in (Len(HmLevels) - 2)..Len(HmLevels) :
       n > 1 => 10 * BandCount(n) >= 8 * BandCount(n - 1)

\* C20 as stated: for every number of bands from 1 to 10, infinite_ads_pattern
\* is true exactly when over the last 3 bands each band's ad count is at least
\* 80% of the preceding band's, and scroll_trap_detected is true exactly when
\* the average band density is > 0.25.
C20_AsStated ==
    (HmDone /\ HmAds # <<>>) =>
      /\ HmOut.infinite_ads_pattern = LastBandsKeepUp
      /\ HmOut.scroll_trap_detected = RLt(<<25, 100>>, HmAvgDensity)

\* C20: infinite_ads_pattern is true exactly when the page has more than 3
\* bands and over the last 3 bands each band's ad count is at least 80% of the
\* preceding band's; scroll_trap_detected is true exactly when the average band
\* density is > 0.25; for every number of bands from 1 to 10.
C20_ScrollSignals ==
    (HmDone /\ HmAds # <<>>) =>
      /\ Len(HmLevels) \in 1..10
      /\ HmOut.infinite_ads_pattern = (Len(HmLevels) > 3 /\ LastBandsKeepUp)
      /\ HmOut.scroll_trap_detected = RLt(<<25, 100>>, HmAvgDensity)

\* a finished call on a page of 3 bands whose last bands keep up: no pattern is
\* reported
C20_Witness ==
    /\ HmDone
    /\ HmAds # <<>>
    /\ Len(HmLevels) = 3
    /\ LastBandsKeepUp
    /\ ~HmOut.infinite_ads_pattern

-----------------------------------------------------------------------------
(* Claims about the evidence for auto-refresh (stated under SpecNet)       *)

\* the netlocs all of whose ad requests in the list carry no timing.startTime
UntimedDomains(reqs) ==
    { d \in { UrlOf(reqs[i]).domain : i \in 1..Len(reqs) } :
        /\ AdPlaces(reqs, d) # {}
        /\ \A i \in AdPlaces(reqs, d) : reqs[i].timing = <<>> }

\* the AUTO_REFRESH_ADS patterns of a suspicious-pattern list
AutoRefreshPatterns(patterns) ==
    { patterns[i] : i \in { j \in 1..Len(patterns) : patterns[j].type = "AUTO_REFRESH_ADS" } }

\* C27: ad requests that carry no timing.startTime never cause their netloc to
\* be flagged for auto-refresh, and when no ad request of the list carries one
\* no auto-refresh points are added to network_risk_score.
C27_NoTimingNoFlag ==
    NiDone =>
      LET reqs    == ni_call.requests
          flagged == suspicious_refreshes(ni.refresh_patterns)
      IN  /\ \A i \in 1..Len(flagged) : flagged[i].domain \notin UntimedDomains(reqs)
          /\ (\A i \in 1..Len(reqs) : UrlOf(reqs[i]).ad => reqs[i].timing = <<>>) =>
                /\ ~NiOut.has_auto_refresh
                /\ AutoRefreshPatterns(NiOut.suspicious_patterns) = {}
                /\ NiOut.network_risk_score
                      = calculate_network_risk_score(NiOut.ad_requests_count, <<>>)

\* C28: has_auto_refresh is true exactly when the suspicious-pattern list
\* contains an AUTO_REFRESH_ADS pattern, and that pattern has severity HIGH
\* exactly when at least one flagged netloc has severity HIGH, for any number of
\* flagged netlocs.
C28_AutoRefreshSeverity ==
    NiDone =>
      LET flagged == suspicious_refreshes(ni.refresh_patterns)
          auto    == AutoRefreshPatterns(NiOut.suspicious_patterns)
      IN  /\ NiOut.has_auto_refresh = (auto # {})
          /\ \A p \in auto :
                (p.severity = "HIGH")
                   = (\E i \in 1..Len(flagged) : flagged[i].severity = "HIGH")

\* the verdict _analyze_ad gives the i-th ad of the call
VcAnalyzed(i) == analyze_ad(vc_call.self, vc_call.ad_elements[i], VcViewport, i)

\* C29: an ad is placed in the viewable category, and so counted in
\* viewable_percentage and in the MRC verdict, if and only if its is_viewable
\* flag is true; an ad occluded by a negative z-index is never counted as
\* viewable.
C29_VerdictMatchesCategory ==
    (VcDone /\ vc_call.ad_elements # <<>>) =>
      /\ \A i \in 1..Len(vc_call.ad_elements) :
            (i \in IdsOf(VcOut.categorization.viewable)) = VcAnalyzed(i).is_viewable
      /\ VcOut.metrics.viewable_count
            = Cardinality({ i \in 1..Len(vc_call.ad_elements) : VcAnalyzed(i).is_viewable })

-----------------------------------------------------------------------------
(* Claims about stacked ads in AdAnalyzer (stated under SpecAnalyzers)     *)

\* the result of the same call on a crawl result without stacked ads
AdOutWithoutStacking == ad_analyze([ad_call.crawl EXCEPT !.stacked_ads = 0])

\* the pattern contribution of _calculate_risk_score, in thousandths, before
\* its cap
PatternContribution(patterns) ==
    CountSeverity(patterns, "high") * 150 + CountSeverity(patterns, "medium") * 80

\* C30: of two inputs that differ only in that one has a non-empty stacked-ads
\* list, the one with stacking has an ad_stacking pattern and a strictly
\* greater risk_score, whenever the pattern contribution is below its 0.4 cap
\* and the total is below 1.0.
C30_StackingRaisesRisk ==
    (/\ AdDone
     /\ ad_call.crawl.stacked_ads > 0
     /\ PatternContribution(AdOut.suspicious_patterns) < 400
     /\ AdOut.risk_score < 100) =>
        /\ \E i \in 1..Len(AdOut.suspicious_patterns) :
              AdOut.suspicious_patterns[i].type = "ad_stacking"
        /\ AdOut.risk_score > AdOutWithoutStacking.risk_score

-----------------------------------------------------------------------------
(* Claims about the audit flow (stated under SpecAudit)                    *)

\* the risk score of the run has been calculated
AuditScored == audit # Idle /\ audit.risk_result # <<>>
AuditPage == audit.page[1]
AuditAdResult == audit.ad_result[1]
AuditRiskResult == audit.risk_result[1]

PatternTypes(patterns) == { patterns[i].type : i \in 1..Len(patterns) }

\* C21: for every page with 8 ad elements and one stacked pair, viewport
\* 1920x1080 and crawl_status SUCCESS, AdAnalyzer reports an ad_stacking and an
\* excessive_ads pattern, layout_risk is at least 0.25, and the risk level
\* RiskEngine gives is medium or high whatever the content, technical and GAM
\* inputs are.
C21_StackedPageAtLeastMedium ==
    ( /\ AuditScored
      /\ AuditPage.crawl_status = "SUCCESS"
      /\ Len(AuditPage.crawl.ad_elements) = 8
      /\ AuditPage.crawl.stacked_ads = 1
      /\ AuditPage.crawl.viewportHeight = <<1080>> )
    => /\ {"ad_stacking", "excessive_ads"} \subseteq
             PatternTypes(AuditAdResult.suspicious_patterns)
       /\ AuditAdResult.layout_risk >= 25
       /\ AuditRiskResult.risk_level \in {"medium", "high"}

AuditContentResult == audit.content_result[1]

\* C22: with zero ads, zero network requests, no GAM data, crawl_status SUCCESS,
\* content risk_score 0.1 and health_score 90, RiskEngine returns scoring_mode
\* full, risk_level low, the ad component with confidence 0.7 and an overall
\* confidence equal to the weighted sum of the component confidences, for every
\* content word count.
C22_QuietPageIsLow ==
    ( /\ AuditScored
      /\ AuditPage.crawl_status = "SUCCESS"
      /\ AuditPage.crawl.ad_elements = <<>>
      /\ AuditPage.crawl.ad_requests = 0
      /\ audit.gam_data[1].rows = <<>>
      /\ AuditContentResult.risk_score = <<10>>
      /\ audit.technical_result[1].health_score = <<90>> )
    => /\ AuditRiskResult.scoring_mode = "full"
       /\ AuditRiskResult.risk_level = "low"
       /\ AuditRiskResult.components.ad.confidence = 350
       /\ AuditRiskResult.conf =
             Norm(<<FullDenominator(AuditRiskResult.components), 50000>>)

AuditGamPresent == audit.gam_data[1].rows # <<>>

\* C23: whenever the primary page's crawl ended with crawl_status BLOCKED, the
\* risk result computed is in gam_only mode when GAM data is present and is the
\* inconclusive result otherwise, never a full-mode result, and the record is
\* never saved with a low, medium or high level derived from the empty page.
C23_BlockedNeverFullMode ==
    (AuditScored /\ AuditPage.crawl_status = "BLOCKED")
    => /\ AuditRiskResult.scoring_mode # "full"
       /\ IF AuditGamPresent
          THEN AuditRiskResult.scoring_mode = "gam_only"
          ELSE AuditRiskResult = inconclusive_result("BLOCKED")
       /\ (audit.saved # <<>> /\ ~AuditGamPresent)
             => audit.saved[1].risk_level \notin {"low", "medium", "high"}

\* C26: when _run_audit_async ends, the site_audits record it created is no
\* longer pending: its status is completed when the function returned (a result
\* with status completed), and failed when the function raised after creating
\* the record, also when a database update failed.
C26_RecordLeavesPending ==
    /\ (audit # Idle /\ audit.pc = "returned") => audit.record = "completed"
    /\ (audit # Idle /\ audit.pc = "raised" /\ audit.record # "none")
          => audit.record = "failed"

-----------------------------------------------------------------------------
(* Claims about the job queue                                              *)

\* C24 (stated under SpecQueue): once a job has reached status completed or
\* failed its status never changes again, under any interleaving of poll_queue
\* and recover_stuck_jobs: a finished job is never reset to pending, so it is
\* never claimed and dispatched a second time.
C24_FinishedJobsStayFinished ==
    [][ \A j \in Jobs :
          jq.status[j] \in {"completed", "failed"} => jq'.status[j] = jq.status[j] ]_vars

\* the runs whose get_pending_jobs returned job j
ReadBy(j) ==
    { r \in Runs : \E k \in 1..Len(jq.run[r].jobs) : jq.run[r].jobs[k] = j }

=============================================================================
